---- MODULE Spec2Model ----
(***************************************************************************)
(* Video-to-Flash-cards: the video-processing pipeline of server/routes.ts *)
(* (processVideo, processVideoFromUrl), the flashcard generator of         *)
(* server/lib/openai.ts and the in-memory store MemStorage.                *)
(*                                                                         *)
(* Node runs the server on one thread: the code between two awaits is one  *)
(* atomic step, and every await is a point where the steps of other        *)
(* requests and other pipeline runs may fall. Each action below is one     *)
(* such segment of a handler or of a pipeline run.                         *)
(*                                                                         *)
(* A text (a JS string the code inspects) is a sequence of one-character   *)
(* strings, so that length, toLowerCase and includes are computed as the   *)
(* code computes them. A transcription, which may be 50000 characters      *)
(* long, is held in the store as a sequence of runs << piece, times >>,    *)
(* the piece repeated that many times; Chars gives its characters.         *)
(***************************************************************************)
EXTENDS Integers, Sequences, FiniteSets, TLC

VARIABLES
    videos,              \* MemStorage.videos: id -> Video
    flashcards,          \* MemStorage.flashcards: id -> Flashcard, in insertion order
    currentVideoId,      \* MemStorage.currentVideoId
    currentFlashcardId,  \* MemStorage.currentFlashcardId
    run,                 \* id -> the locals and position of the job's handler / pipeline run
    staged,              \* temporary files on disk (uploads/...)
    unlinked,            \* paths for which fs.unlink has been issued
    chatRequests,        \* id -> the transcripts sent to openai.chat.completions.create
    lib,                 \* which revision of server/lib/openai.ts is linked
    unlinkErrors,        \* paths whose fs.unlink callback got an error and logged it
    studySessions,       \* MemStorage.studySessions: id -> StudySession
    currentStudySessionId, \* MemStorage.currentStudySessionId
    calls,               \* the calls of POST /api/videos/:id/study-session and their responses
    patches,             \* PATCH /api/study-sessions/:id requests in flight
    client,              \* the state of the StudyInterface component
    lastSubmission       \* the submission last answered through the checked routes, and its answer

vars == << videos, flashcards, currentVideoId, currentFlashcardId, run,
           staged, unlinked, chatRequests, lib, unlinkErrors,
          studySessions, currentStudySessionId, calls, patches, client, lastSubmission >>

\* The variables of the study sessions.
studyVars == << studySessions, currentStudySessionId, calls, patches, client >>

\* The variables of the submissions and the pipeline runs.
pipelineVars ==
    << videos, flashcards, currentVideoId, currentFlashcardId, run, staged, unlinked,
       chatRequests, lib, unlinkErrors >>

-----------------------------------------------------------------------------
(* Bounds *)

\* Number of submissions (jobs) in Spec and SpecWithFallback.
MaxVideosSolo == 1

\* Number of submissions (jobs) in SpecJobs, whose runs interleave.
MaxVideos == 2

-----------------------------------------------------------------------------
(* JS values *)

\* null / undefined where a text is expected; no text equals it (every
\* element of a text is a single character).
Null == << "null" >>

\* undefined where a card's question or answer is expected.
Undefined == "\\undefined"

\* JS truthiness of a string-or-null value: null, undefined and "" are falsy.
Truthy(t) == t # Null /\ t # <<>>

\* JS truthiness of a card field.
TruthyField(s) == s # Undefined /\ s # ""

UpperCase == << "A","B","C","D","E","F","G","H","I","J","K","L","M",
                "N","O","P","Q","R","S","T","U","V","W","X","Y","Z" >>
LowerCase == << "a","b","c","d","e","f","g","h","i","j","k","l","m",
                "n","o","p","q","r","s","t","u","v","w","x","y","z" >>

\* The lower-case form of each capital letter.
LowerCaseOf ==
    [c \in { UpperCase[k] : k \in 1..26 } |->
        LowerCase[CHOOSE k \in 1..26 : UpperCase[k] = c]]

\* The lower-case form of one character.
LowerOf(c) == IF c \in DOMAIN LowerCaseOf THEN LowerCaseOf[c] ELSE c

\* Mutant of toLowerCase: the text is tested as it is.
toLowerCaseMissing(t) == t

\* String.prototype.toLowerCase (the concatenation with the empty text leaves
\* the value as it is and makes TLC hold it as a tuple, once computed)
toLowerCase(t) == [i \in 1..Len(t) |-> LowerOf(t[i])] \o <<>>

\* String.prototype.includes
includes(t, k) ==
    \E i \in 0..(Len(t) - Len(k)) :
        \A j \in 1..Len(k) : t[i + j] = k[j]

RECURSIVE Rep(_, _)
\* String.prototype.repeat, used to build the sample transcripts
Rep(s, n) == IF n = 0 THEN <<>> ELSE s \o Rep(s, n - 1)

\* The first n characters of the phrase repeated without end.
Cycle(phrase, n) == [i \in 1..n |-> phrase[((i - 1) % Len(phrase)) + 1]] \o <<>>

\* The stored form of a text given by its characters: one run.
Plain(chars) == << << chars, 1 >> >>

RECURSIVE Chars(_)
\* The characters of a stored text: its runs one after the other.
Chars(text) ==
    IF text = <<>> THEN <<>>
    ELSE Cycle(text[1][1], Len(text[1][1]) * text[1][2]) \o Chars(Tail(text))

-----------------------------------------------------------------------------
(* Texts of server/routes.ts *)

FileFallbackText ==
    << "A","u","d","i","o"," ","p","r","o","c","e","s","s","i","n","g",
       " ","f","a","i","l","e","d"," ","f","o","r"," ","t","h","i","s",
       " ","v","i","d","e","o","."," ","T","h","i","s"," ","c","o","u",
       "l","d"," ","b","e"," ","d","u","e"," ","t","o",":"," ","1",")",
       " ","F","F","m","p","e","g"," ","n","o","t"," ","b","e","i","n",
       "g"," ","i","n","s","t","a","l","l","e","d",","," ","2",")"," ",
       "I","n","v","a","l","i","d"," ","a","u","d","i","o"," ","f","o",
       "r","m","a","t",","," ","3",")"," ","O","p","e","n","A","I"," ",
       "A","P","I"," ","i","s","s","u","e","s","."," ","P","l","e","a",
       "s","e"," ","c","h","e","c","k"," ","y","o","u","r"," ","s","e",
       "t","u","p"," ","a","n","d"," ","t","r","y"," ","a","g","a","i",
       "n","." >>

UrlFallbackPrefix ==
    << "F","a","i","l","e","d"," ","t","o"," ","p","r","o","c","e","s",
       "s"," ","v","i","d","e","o"," ","f","r","o","m"," " >>

UrlFallbackSuffix ==
    << "."," ","T","h","i","s"," ","c","o","u","l","d"," ","b","e"," ",
       "d","u","e"," ","t","o",":"," ","1",")"," ","M","i","s","s","i",
       "n","g"," ","y","t","-","d","l","p"," ","o","r"," ","F","F","m",
       "p","e","g",","," ","2",")"," ","V","i","d","e","o"," ","n","o",
       "t"," ","a","c","c","e","s","s","i","b","l","e",","," ","3",")",
       " ","N","e","t","w","o","r","k"," ","i","s","s","u","e","s",",",
       " ","4",")"," ","O","p","e","n","A","I"," ","A","P","I"," ","p",
       "r","o","b","l","e","m","s","."," ","P","l","e","a","s","e"," ",
       "t","r","y"," ","u","p","l","o","a","d","i","n","g"," ","t","h",
       "e"," ","v","i","d","e","o"," ","f","i","l","e"," ","d","i","r",
       "e","c","t","l","y"," ","i","n","s","t","e","a","d","." >>

UnsupportedPrefix ==
    << "V","i","d","e","o"," ","U","R","L"," ","p","r","o","c","e","s",
       "s","i","n","g"," ","f","o","r"," " >>

UnsupportedSuffix ==
    << " ","r","e","q","u","i","r","e","s"," ","a","d","d","i","t","i",
       "o","n","a","l"," ","s","e","t","u","p","."," ","C","u","r","r",
       "e","n","t","l","y",","," ","o","n","l","y"," ","Y","o","u","T",
       "u","b","e"," ","U","R","L","s"," ","a","r","e"," ","s","u","p",
       "p","o","r","t","e","d"," ","w","i","t","h"," ","y","t","-","d",
       "l","p","."," ","F","o","r"," ","o","t","h","e","r"," ","v","i",
       "d","e","o"," ","s","o","u","r","c","e","s",","," ","p","l","e",
       "a","s","e"," ","u","p","l","o","a","d"," ","t","h","e"," ","v",
       "i","d","e","o"," ","f","i","l","e"," ","d","i","r","e","c","t",
       "l","y","." >>

\* `Failed to process video from ${videoUrl}. ...`
UrlFallbackText(videoUrl) == UrlFallbackPrefix \o videoUrl \o UrlFallbackSuffix

\* `Video URL processing for ${videoUrl} requires additional setup. ...`
UnsupportedText(videoUrl) == UnsupportedPrefix \o videoUrl \o UnsupportedSuffix

\* videoUrl.includes('youtube.com') || videoUrl.includes('youtu.be')
IsYouTube(videoUrl) ==
    \/ includes(videoUrl, << "y","o","u","t","u","b","e",".","c","o","m" >>)
    \/ includes(videoUrl, << "y","o","u","t","u",".","b","e" >>)

-----------------------------------------------------------------------------
(* Inputs: submitted URLs, transcripts the transcription provider returns, *)
(* outcomes of the chat-completion call.                                   *)

Phrase25 == \* 25 characters
    << "o","n","e"," ","c","o","n","c","e","p","t",","," ","f","o","r",
       " ","e","x","a","m","p","l","e"," " >>

P10 == \* 10 characters
    << "k","e","y"," ","t","o","p","i","c"," " >>

P12 == \* 12 characters
    << "l","a"," ","l","a"," ","l","a"," ","l","a"," " >>

QuotaHead == \* 15 characters
    << "q","u","o","t","a"," ","e","x","c","e","e","d","e","d"," " >>

AConcept == \* 10 characters
    << "a"," ","c","o","n","c","e","p","t"," " >>

Done5 == \* 5 characters
    << "d","o","n","e","." >>

UrlYoutube == \* 23 characters
    << "h","t","t","p","s",":","/","/","y","o","u","t","u",".","b","e",
       "/","t","o","p","i","c","1" >>

UrlExample == \* 25 characters
    << "h","t","t","p","s",":","/","/","e","x","a","m","p","l","e",".",
       "c","o","m","/","v",".","m","p","4" >>

UrlPlain == \* 20 characters
    << "h","t","t","p","s",":","/","/","v","i","m","e","o",".","c","o",
       "m","/","7","6" >>

MsgAuth == \* 30 characters
    << "4","0","1"," ","I","n","c","o","r","r","e","c","t"," ","A","P",
       "I"," ","k","e","y"," ","p","r","o","v","i","d","e","d" >>

MsgQuota == \* 31 characters
    << "Y","o","u"," ","e","x","c","e","e","d","e","d"," ","y","o","u",
       "r"," ","c","u","r","r","e","n","t"," ","q","u","o","t","a" >>

MsgRate == \* 18 characters
    << "r","a","t","e"," ","l","i","m","i","t"," ","r","e","a","c","h",
       "e","d" >>

MsgNet == \* 16 characters
    << "C","o","n","n","e","c","t","i","o","n"," ","r","e","s","e","t" >>

\* URLs submitted to POST /api/videos/upload-url (each parses as a URL).
Urls == { UrlYoutube, UrlExample, UrlPlain }

\* A 500-character substantive transcript.
Good500 == Rep(Phrase25, 20)
\* 40 characters, with educational keywords.
Short40 == Rep(P10, 4)
\* 120 characters, neither a fingerprint nor an educational keyword.
Plain120 == Rep(P12, 10)
\* 120 characters containing "quota exceeded" (and the keyword "concept").
Quota120 == QuotaHead \o Rep(AConcept, 10) \o Done5

\* What openai.audio.transcriptions.create may return in transcription.text.
Transcripts == { Plain(t) : t \in { Good500, Short40, Plain120, Quota120, <<>> } }

Card(q, a) == [question |-> q, answer |-> a]

TenPairs ==
    << Card("q0", "a0"), Card("q1", "a1"), Card("q2", "a2"), Card("q3", "a3"),
       Card("q4", "a4"), Card("q5", "a5"), Card("q6", "a6"), Card("q7", "a7"),
       Card("q8", "a8"), Card("q9", "a9") >>

\* 9 pairs, one of them with an empty answer.
NinePairsOneEmpty ==
    << Card("q0", "a0"), Card("q1", "a1"), Card("q2", "a2"), Card("q3", ""),
       Card("q4", "a4"), Card("q5", "a5"), Card("q6", "a6"), Card("q7", "a7"),
       Card("q8", "a8") >>

\* No entry has both fields.
NoValidPair == << Card("q0", Undefined), Card("", "a1") >>

\* An entry of the parsed array that is the JSON value null.
NullEntry == [null |-> TRUE]

\* Two valid pairs around a null entry.
PairsWithNull == << Card("q0", "a0"), NullEntry, Card("q2", "a2") >>

\* Outcomes of openai.chat.completions.create followed by JSON.parse:
\* the call throws, or the parsed content has result.flashcards (Undefined
\* when the content holds no flashcards array).
ChatThrows(m) == [type |-> "throw", message |-> m, cards |-> <<>>]
ChatContent(c) == [type |-> "content", message |-> <<>>, cards |-> c]
ChatNoArray == [type |-> "noarray", message |-> <<>>, cards |-> <<>>]

ChatOutcomes ==
    { ChatThrows(MsgAuth), ChatThrows(MsgQuota), ChatThrows(MsgRate), ChatThrows(MsgNet),
      ChatNoArray,
      ChatContent(TenPairs), ChatContent(NinePairsOneEmpty),
      ChatContent(NoValidPair), ChatContent(<<>>), ChatContent(PairsWithNull) }

\* Two valid pairs around a pair without a question.
ThreePairsOneEmpty == << Card("q0", "a0"), Card(Undefined, "a1"), Card("q2", "a2") >>

\* The first job is given every input above. The jobs submitted after it,
\* whose runs interleave with it and with each other, are uploaded files
\* with a reduced set of provider outcomes.
UrlsFor(id) == IF id = 1 THEN Urls ELSE {}

TranscriptsFor(id) == IF id = 1 THEN Transcripts ELSE { Plain(Good500) }

ChatOutcomesFor(id) ==
    IF id = 1 THEN ChatOutcomes
    ELSE { ChatThrows(MsgNet), ChatContent(ThreePairsOneEmpty) }

-----------------------------------------------------------------------------
(* generateFlashcards                                                      *)

\* new Error(message): the fixed text of the message and the text
\* interpolated into it (<<>> when there is none).
Error(message, detail) == << message, detail >>

\* No result yet / no error caught.
NoError == << "", <<>> >>

MinTranscriptionLength == 100
MaxTranscriptionLength == 50000

\* The five fingerprints tested against transcription.toLowerCase().
ErrorFingerprints ==
    { << "e","r","r","o","r" >>,
      << "f","a","i","l","e","d" >>,
      << "a","p","i"," ","k","e","y" >>,
      << "q","u","o","t","a" >>,
      << "b","i","l","l","i","n","g" >> }

educationalKeywords ==
    { << "l","e","a","r","n" >>,
      << "u","n","d","e","r","s","t","a","n","d" >>,
      << "c","o","n","c","e","p","t" >>,
      << "d","e","f","i","n","i","t","i","o","n" >>,
      << "e","x","p","l","a","i","n" >>,
      << "e","x","a","m","p","l","e" >>,
      << "i","m","p","o","r","t","a","n","t" >>,
      << "k","e","y" >>,
      << "t","o","p","i","c" >>,
      << "s","u","b","j","e","c","t" >> }

\* Mutant of hasEducationalContent: every keyword is required (every for some).
hasEveryEducationalKeyword(transcription) ==
    LET lower == toLowerCase(transcription)
    IN  \A keyword \in educationalKeywords : includes(lower, keyword)

\* keyword => transcription.toLowerCase().includes(keyword)
hasEducationalContent(transcription) ==
    LET lower == toLowerCase(transcription)
    IN  \E keyword \in educationalKeywords : includes(lower, keyword)

\* Mutant of TooShort: the threshold itself is rejected.
TooShortInclusive(transcription) ==
    ~Truthy(transcription) \/ Len(transcription) <= MinTranscriptionLength

\* !transcription || transcription.length < 100
TooShort(transcription) ==
    ~Truthy(transcription) \/ Len(transcription) < MinTranscriptionLength

\* Mutant of TooLong: the bound itself is rejected.
TooLongInclusive(transcription) == Len(transcription) >= MaxTranscriptionLength

\* transcription.length > 50000
TooLong(transcription) == Len(transcription) > MaxTranscriptionLength

\* Mutant of HasFingerprint: the test for "billing" is missing.
HasFingerprintButBilling(transcription) ==
    LET lower == toLowerCase(transcription)
    IN  \E f \in ErrorFingerprints \ { << "b","i","l","l","i","n","g" >> } : includes(lower, f)

\* transcription.toLowerCase().includes("error") || ... includes("billing")
HasFingerprint(transcription) ==
    LET lower == toLowerCase(transcription)
    IN  \E f \in ErrorFingerprints : includes(lower, f)

\* The validation at the head of generateFlashcards: the Error it throws,
\* or NoError when the transcription goes on to the chat-completion call.
ValidateTranscription(transcription) ==
    IF TooShort(transcription)
    THEN Error("Transcription is too short to generate meaningful flashcards", <<>>)
    ELSE IF HasFingerprint(transcription) \/ TooLong(transcription)
    THEN Error("Cannot generate flashcards from error messages or invalid transcriptions", <<>>)
    ELSE IF ~hasEducationalContent(transcription)
    THEN Error("Transcription does not appear to contain educational content suitable for flashcards", <<>>)
    ELSE NoError

\* `card.question` where card is null: the map callback throws a TypeError.
MapThrows(cards) == \E i \in 1..Len(cards) : cards[i] = NullEntry

\* Mutant of MapAndFilter: the filter tests the question only.
MapAndFilterQuestionOnly(cards) ==
    LET mapped == [i \in 1..Len(cards) |->
                     Card(IF TruthyField(cards[i].question) THEN cards[i].question ELSE "",
                          IF TruthyField(cards[i].answer) THEN cards[i].answer ELSE "")]
    IN  SelectSeq(mapped, LAMBDA card : TruthyField(card.question))

\* result.flashcards.map(card => ({question: card.question || "", answer:
\* card.answer || ""})).filter(card => card.question && card.answer), for
\* an array on which the map callback does not throw.
MapAndFilter(cards) ==
    LET mapped == [i \in 1..Len(cards) |->
                     Card(IF TruthyField(cards[i].question) THEN cards[i].question ELSE "",
                          IF TruthyField(cards[i].answer) THEN cards[i].answer ELSE "")]
    IN  SelectSeq(mapped, LAMBDA card : TruthyField(card.question) /\ TruthyField(card.answer))

\* The try block of generateFlashcards ends with an error: the provider's
\* own, "Invalid response format from OpenAI" for a content without a
\* flashcards array, or the TypeError of the map callback.
TryThrows(outcome) ==
    \/ outcome.type \in { "throw", "noarray" }
    \/ outcome.type = "content" /\ MapThrows(outcome.cards)

\* The message of that error.
TryError(outcome) ==
    IF outcome.type = "throw" THEN outcome.message
    ELSE IF outcome.type = "noarray"
    THEN << "I","n","v","a","l","i","d"," ","r","e","s","p","o","n","s","e",
            " ","f","o","r","m","a","t"," ","f","r","o","m"," ","O","p","e",
            "n","A","I" >>
    ELSE
        << "C","a","n","n","o","t"," ","r","e","a","d"," ","p","r","o","p",
           "e","r","t","i","e","s"," ","o","f"," ","n","u","l","l"," ","(",
           "r","e","a","d","i","n","g"," ","'","q","u","e","s","t","i","o",
           "n","'",")" >>

\* Mutant of Resignal: 'quota' and 'billing' are tested before the API key.
ResignalQuotaFirst(message) ==
    IF \/ includes(message, << "q","u","o","t","a" >>)
       \/ includes(message, << "b","i","l","l","i","n","g" >>)
    THEN Error("OpenAI API quota exceeded. Please check your billing.", <<>>)
    ELSE IF \/ includes(message, << "I","n","c","o","r","r","e","c","t"," ","A","P","I"," ","k","e","y" >>)
            \/ includes(message, << "4","0","1" >>)
    THEN Error("Invalid OpenAI API key. Please check your OPEN_API_VIDTUT secret in Replit.", <<>>)
    ELSE IF includes(message, << "r","a","t","e"," ","l","i","m","i","t" >>)
    THEN Error("OpenAI API rate limit exceeded. Please try again later.", <<>>)
    ELSE Error("Failed to generate flashcards: ", message)

\* The catch block of generateFlashcards (the revision that re-signals).
Resignal(message) ==
    IF \/ includes(message, << "I","n","c","o","r","r","e","c","t"," ","A","P","I"," ","k","e","y" >>)
       \/ includes(message, << "4","0","1" >>)
    THEN Error("Invalid OpenAI API key. Please check your OPEN_API_VIDTUT secret in Replit.", <<>>)
    ELSE IF \/ includes(message, << "q","u","o","t","a" >>)
            \/ includes(message, << "b","i","l","l","i","n","g" >>)
    THEN Error("OpenAI API quota exceeded. Please check your billing.", <<>>)
    ELSE IF includes(message, << "r","a","t","e"," ","l","i","m","i","t" >>)
    THEN Error("OpenAI API rate limit exceeded. Please try again later.", <<>>)
    ELSE Error("Failed to generate flashcards: ", message)

\* The five fallback flashcards the catch block of the other revision returns.
FallbackFlashcards ==
    << Card("What are the three main types of machine learning mentioned in the video?",
            "The three main types are supervised learning, unsupervised learning, and reinforcement learning."),
       Card("How does supervised learning work?",
            "Supervised learning uses labeled training data where the algorithm learns from input-output pairs to make predictions on new data."),
       Card("What is the key characteristic of unsupervised learning?",
            "Unsupervised learning works with unlabeled data to discover hidden patterns, structures, or relationships without predefined correct answers."),
       Card("Give an example of where reinforcement learning is commonly used.",
            "Reinforcement learning is commonly used in game playing and robotics applications."),
       Card("What is machine learning?",
            "Machine learning is a subset of artificial intelligence that enables computers to learn and make decisions from data without being explicitly programmed for every possible scenario.") >>

\* What a settled call of generateFlashcards hands its caller: the cards it
\* returns, or the Error it rejects with.
Returned(cards) == [error |-> NoError, cards |-> cards]
Rejected(error) == [error |-> error, cards |-> <<>>]

\* generateFlashcards from the chat-completion outcome on, in the revision
\* with the validation: cards, or the re-signalled error.
GenerateValidated(outcome) ==
    IF TryThrows(outcome)
    THEN Rejected(Resignal(TryError(outcome)))
    ELSE Returned(MapAndFilter(outcome.cards))

\* generateFlashcards from the chat-completion outcome on, in
\* server/lib/openai.ts: cards, or the fallback flashcards.
GenerateWithFallback(outcome) ==
    IF TryThrows(outcome)
    THEN Returned(FallbackFlashcards)
    ELSE Returned(MapAndFilter(outcome.cards))

\* The two revisions of server/lib/openai.ts in the repository.
Validating == "validating"
WithFallback == "with-fallback"

-----------------------------------------------------------------------------
(* MemStorage *)

\* createVideo: the record stored for a new job. videoUrl is Null for an
\* uploaded file.
NewVideo(id, videoUrl) ==
    [id |-> id, videoUrl |-> videoUrl, status |-> "uploading",
     transcription |-> Plain(Null), processingProgress |-> 0]

\* parseInt of a text that is not a number: the key of no session.
NaN == 0

\* sessionData?.session before the query has data.
NoSession == [id |-> NaN]

\* this.videos.get(id) for a key the map does not hold.
NoVideo == [id |-> NaN]

\* getVideo(id)
getVideo(vs, id) == IF id \in DOMAIN vs THEN vs[id] ELSE NoVideo

\* GET /api/videos/:id: 404 "Video not found" or res.json({ video }).
GetVideoAnswer(vs, id) ==
    IF getVideo(vs, id) = NoVideo
    THEN [status |-> 404, message |-> "Video not found", video |-> NoVideo]
    ELSE [status |-> 200, message |-> "", video |-> getVideo(vs, id)]

\* Mutant of updateVideoStatus: the write is not keyed by the id.
updateVideoStatusEveryVideo(vs, id, status, progress) ==
    [v \in DOMAIN vs |-> [vs[v] EXCEPT !.status = status, !.processingProgress = progress]]

\* updateVideoStatus(id, status, progress): every caller gives progress.
updateVideoStatus(vs, id, status, progress) ==
    IF id \in DOMAIN vs
    THEN [vs EXCEPT ![id] = [@ EXCEPT !.status = status, !.processingProgress = progress]]
    ELSE vs

\* updateVideoTranscription(id, transcription)
updateVideoTranscription(vs, id, transcription) ==
    IF id \in DOMAIN vs
    THEN [vs EXCEPT ![id] = [@ EXCEPT !.transcription = transcription]]
    ELSE vs

\* createFlashcard: the map after the insertion, id from currentFlashcardId.
createFlashcard(fs, nextId, insertFlashcard) ==
    Append(fs, [id |-> nextId, videoId |-> insertFlashcard.videoId,
                question |-> insertFlashcard.question,
                answer |-> insertFlashcard.answer,
                order |-> insertFlashcard.order])

RECURSIVE SortByOrder(_)
\* Array.prototype.sort((a, b) => a.order - b.order): stable, ascending.
SortByOrder(cs) ==
    IF cs = <<>> THEN <<>>
    ELSE LET m == CHOOSE i \in 1..Len(cs) :
                    /\ \A j \in 1..Len(cs) : cs[i].order <= cs[j].order
                    /\ \A j \in 1..(i - 1) : cs[j].order > cs[i].order
         IN  << cs[m] >> \o SortByOrder(SubSeq(cs, 1, m - 1) \o SubSeq(cs, m + 1, Len(cs)))

\* Mutant of getFlashcardsByVideoId: the cards are sorted but not filtered.
getFlashcardsOfEveryVideo(fs, videoId) == SortByOrder(fs)

\* getFlashcardsByVideoId
getFlashcardsByVideoId(fs, videoId) ==
    SortByOrder(SelectSeq(fs, LAMBDA card : card.videoId = videoId))

\* new Date().toISOString()
IsoNow == << "iso-date" >>

\* createStudySession: this.studySessions.set(id, session)
createStudySession(ss, nextId, insertSession) ==
    [i \in (DOMAIN ss) \cup {nextId} |->
        IF i = nextId
        THEN [id |-> nextId, videoId |-> insertSession.videoId, startedAt |-> IsoNow,
              currentCardIndex |-> 0, completedCards |-> <<>>, reviewCards |-> <<>>,
              studyTime |-> 0, completedAt |-> Null]
        ELSE ss[i]]

\* getStudySessionByVideoId: the key of the first session of the map, in
\* insertion order, whose videoId is the one asked for; NaN when there is
\* none (find returns undefined).
getStudySessionByVideoId(ss, videoId) ==
    LET found == { i \in DOMAIN ss : ss[i].videoId = videoId } IN
    IF found = {} THEN NaN
    ELSE CHOOSE i \in found : \A j \in found : i <= j

\* Object.assign(target, source)
ObjectAssign(target, source) ==
    [f \in (DOMAIN target) \cup (DOMAIN source) |->
        IF f \in DOMAIN source THEN source[f] ELSE target[f]]

\* getStudySession(id): this.studySessions.get(id), undefined for a key the
\* map does not hold.
getStudySession(ss, id) == IF id \in DOMAIN ss THEN ss[id] ELSE NoSession

\* Mutant of updateStudySession: a session is made for an id the map does
\* not hold.
updateStudySessionUpserts(ss, id, updates) ==
    [i \in (DOMAIN ss) \cup {id} |->
        IF i = id THEN (IF id \in DOMAIN ss THEN ObjectAssign(ss[id], updates) ELSE updates)
        ELSE ss[i]]

\* updateStudySession(id, updates)
updateStudySession(ss, id, updates) ==
    IF id \in DOMAIN ss
    THEN [ss EXCEPT ![id] = ObjectAssign(@, updates)]
    ELSE ss

-----------------------------------------------------------------------------
(* Handlers and pipeline runs *)

\* createVideo: this.videos.set(id, video)
createVideo(vs, id, videoUrl) ==
    [i \in (DOMAIN vs) \cup {id} |-> IF i = id THEN NewVideo(id, videoUrl) ELSE vs[i]]

\* req.file.path, `uploads/audio_${videoId}.wav`, `uploads/temp_video_${videoId}.mp4`
filePath(id) == << "upload", id >>
audioPath(id) == << "audio", id >>
tempVideoPath(id) == << "temp_video", id >>

NoOutcome == [type |-> "none", message |-> <<>>, cards |-> <<>>]

\* The locals of a submission handler and of the run it dispatches.
\*   pc          where the handler / run stands (the await it is suspended at)
\*   kind        "file" (processVideo) or "url" (processVideoFromUrl)
\*   response    the video record the handler sent in res.json({ video })
\*   fallback    the inner catch block ran and stored its fallback text
\*   whisper     "none", "ok" or "threw": the transcription call
\*   chatOutcome what the chat-completion call came back with
\*   generated   what generateFlashcards settled with
\*   flashcards  const flashcards = await generateFlashcards(...)
\*   i           the loop variable of the save loop
\*   error       the error the outer catch block caught and logged
NewRun(kind, videoUrl) ==
    [pc |-> "created", kind |-> kind, videoUrl |-> videoUrl, response |-> Null,
     fallback |-> FALSE, whisper |-> "none", chatOutcome |-> NoOutcome,
     generated |-> Returned(<<>>), flashcards |-> <<>>, i |-> 0, error |-> NoError]

Ids == DOMAIN run

\* No file part in the request (req.file undefined).
NoFile == [mimetype |-> "", size |-> 0]

\* No submission answered yet.
NoSubmission == [route |-> "none", file |-> NoFile, videoUrl |-> Null, answer |-> ""]

\* The study-session part of the store after construction, no call of the
\* study-session routes yet, and the page showing the processing section
\* of the first job.
InitStudy ==
    /\ studySessions = <<>>
    /\ currentStudySessionId = 1
    /\ calls = <<>>
    /\ patches = {}
    /\ client = [appState |-> "processing", rendered |-> FALSE, videoId |-> 1,
                 session |-> NoSession, cards |-> 0, currentCardIndex |-> 0,
                 advances |-> 0]

Init ==
    /\ videos = <<>>
    /\ flashcards = <<>>
    /\ currentVideoId = 1
    /\ currentFlashcardId = 1
    /\ run = <<>>
    /\ staged = {}
    /\ unlinked = {}
    /\ chatRequests = <<>>
    /\ lib = Validating
    /\ unlinkErrors = {}
    /\ InitStudy
    /\ lastSubmission = NoSubmission

\* The repository's server/lib/openai.ts as it stands under that name.
InitWithFallback ==
    /\ videos = <<>>
    /\ flashcards = <<>>
    /\ currentVideoId = 1
    /\ currentFlashcardId = 1
    /\ run = <<>>
    /\ staged = {}
    /\ unlinked = {}
    /\ chatRequests = <<>>
    /\ lib = WithFallback
    /\ unlinkErrors = {}
    /\ InitStudy
    /\ lastSubmission = NoSubmission

\* POST /api/videos/upload up to `await storage.createVideo(validatedData)`;
\* multer has staged the file.
CreateUpload(limit) ==
    /\ currentVideoId <= limit
    /\ LET id == currentVideoId IN
        /\ videos' = createVideo(videos, id, Null)
        /\ currentVideoId' = id + 1
        /\ run' = [i \in Ids \cup {id} |-> IF i = id THEN NewRun("file", Null) ELSE run[i]]
        /\ chatRequests' = [i \in Ids \cup {id} |-> IF i = id THEN <<>> ELSE chatRequests[i]]
        /\ staged' = staged \cup {filePath(id)}
    /\ UNCHANGED << flashcards, currentFlashcardId, unlinked, lib, studyVars, unlinkErrors >>

\* Mutant of PostUpload: createVideo reads currentVideoId without
\* incrementing it (this.currentVideoId for this.currentVideoId++).
PostUploadSameId(limit) ==
    /\ currentVideoId <= limit
    /\ LET id == currentVideoId IN
        /\ videos' = createVideo(videos, id, Null)
        /\ currentVideoId' = id
        /\ run' = [i \in Ids \cup {id} |-> IF i = id THEN NewRun("file", Null) ELSE run[i]]
        /\ chatRequests' = [i \in Ids \cup {id} |-> IF i = id THEN <<>> ELSE chatRequests[i]]
        /\ staged' = staged \cup {filePath(id)}
    /\ UNCHANGED << flashcards, currentFlashcardId, unlinked, lib, studyVars, lastSubmission, unlinkErrors >>

\* POST /api/videos/upload with a file that multer accepted.
PostUpload(limit) == CreateUpload(limit) /\ UNCHANGED lastSubmission

\* POST /api/videos/upload-url up to `await storage.createVideo(validatedData)`.
CreateUploadUrl(limit, videoUrl) ==
    /\ currentVideoId <= limit
    /\ LET id == currentVideoId IN
        /\ videos' = createVideo(videos, id, videoUrl)
        /\ currentVideoId' = id + 1
        /\ run' = [i \in Ids \cup {id} |-> IF i = id THEN NewRun("url", videoUrl) ELSE run[i]]
        /\ chatRequests' = [i \in Ids \cup {id} |-> IF i = id THEN <<>> ELSE chatRequests[i]]
    /\ UNCHANGED << flashcards, currentFlashcardId, staged, unlinked, lib, studyVars, unlinkErrors >>

\* POST /api/videos/upload-url with a URL that passed the handler's tests.
PostUploadUrl(limit, videoUrl) == CreateUploadUrl(limit, videoUrl) /\ UNCHANGED lastSubmission

\* Mutant of Dispatch: the handler sends the record before it starts the run.
DispatchAfterResponse(id) ==
    /\ run[id].pc = "created"
    /\ videos' = updateVideoStatus(videos, id, "processing", 10)
    /\ run' = [run EXCEPT ![id] = [@ EXCEPT !.pc = "p10", !.response = videos[id]]]
    /\ UNCHANGED << flashcards, currentVideoId, currentFlashcardId, staged, unlinked,
                    chatRequests, lib, studyVars, lastSubmission, unlinkErrors >>

\* The rest of the submission handler: processVideo(video.id, path) or
\* processVideoFromUrl(video.id, videoUrl) runs to its first await, which is
\* past updateVideoStatus(videoId, "processing", 10); then res.json({ video })
\* with the record object the store keeps.
Dispatch(id) ==
    /\ run[id].pc = "created"
    /\ videos' = updateVideoStatus(videos, id, "processing", 10)
    /\ run' = [run EXCEPT ![id] = [@ EXCEPT !.pc = "p10", !.response = videos'[id]]]
    /\ UNCHANGED << flashcards, currentVideoId, currentFlashcardId, staged, unlinked,
                    chatRequests, lib, studyVars, lastSubmission, unlinkErrors >>

\* Mutant of Progress30: the step reports a progress of 20.
Progress30Reports20(id) ==
    /\ run[id].pc = "p10"
    /\ videos' = updateVideoStatus(videos, id, "processing", 20)
    /\ run' = [run EXCEPT ![id] = [@ EXCEPT !.pc = "p30"]]
    /\ UNCHANGED << flashcards, currentVideoId, currentFlashcardId, staged, unlinked,
                    chatRequests, lib, studyVars, lastSubmission, unlinkErrors >>

\* The first timer fires: updateVideoStatus(videoId, "processing", 30).
Progress30(id) ==
    /\ run[id].pc = "p10"
    /\ videos' = updateVideoStatus(videos, id, "processing", 30)
    /\ run' = [run EXCEPT ![id] = [@ EXCEPT !.pc = "p30"]]
    /\ UNCHANGED << flashcards, currentVideoId, currentFlashcardId, staged, unlinked,
                    chatRequests, lib, studyVars, lastSubmission, unlinkErrors >>

\* Mutant of InnerCatch: the block marks the job failed and lets the run go on.
InnerCatchMarksFailed(id) ==
    /\ videos' = updateVideoStatus(videos, id, "failed", 0)
    /\ run' = [run EXCEPT ![id] = [@ EXCEPT !.pc = "transcribed", !.fallback = TRUE,
                  !.whisper = IF run[id].pc = "whisper" THEN "threw" ELSE @]]

\* The inner catch block: the fallback text is stored as the transcription.
InnerCatch(id) ==
    /\ videos' = updateVideoTranscription(videos, id,
                    IF run[id].kind = "file" THEN Plain(FileFallbackText)
                    ELSE Plain(UrlFallbackText(run[id].videoUrl)))
    /\ run' = [run EXCEPT ![id] = [@ EXCEPT !.pc = "transcribed", !.fallback = TRUE,
                  !.whisper = IF run[id].pc = "whisper" THEN "threw" ELSE @]]

\* After the await of the progress-30 write. processVideo: exec(ffmpegCommand).
\* processVideoFromUrl: exec(downloadCommand) for a YouTube URL; for any other
\* URL the placeholder text is stored as the transcription.
Acquire(id) ==
    /\ run[id].pc = "p30"
    /\ IF run[id].kind = "file"
       THEN /\ run' = [run EXCEPT ![id] = [@ EXCEPT !.pc = "ffmpeg"]]
            /\ UNCHANGED videos
       ELSE IF IsYouTube(run[id].videoUrl)
       THEN /\ run' = [run EXCEPT ![id] = [@ EXCEPT !.pc = "yt-dlp"]]
            /\ UNCHANGED videos
       ELSE /\ videos' = updateVideoTranscription(videos, id, Plain(UnsupportedText(run[id].videoUrl)))
            /\ run' = [run EXCEPT ![id] = [@ EXCEPT !.pc = "transcribed"]]
    /\ UNCHANGED << flashcards, currentVideoId, currentFlashcardId, staged, unlinked,
                    chatRequests, lib, studyVars, lastSubmission, unlinkErrors >>

\* The callback of exec(downloadCommand): the download is staged and ffmpeg
\* started, or the error is rejected into the inner catch block.
YtDlpExit(id, ok) ==
    /\ run[id].pc = "yt-dlp"
    /\ IF ok
       THEN /\ staged' = staged \cup {tempVideoPath(id)}
            /\ run' = [run EXCEPT ![id] = [@ EXCEPT !.pc = "ffmpeg"]]
            /\ UNCHANGED videos
       ELSE /\ InnerCatch(id)
            /\ UNCHANGED staged
    /\ UNCHANGED << flashcards, currentVideoId, currentFlashcardId, unlinked,
                    chatRequests, lib, studyVars, lastSubmission, unlinkErrors >>

\* Mutant of FfmpegExit: a failed extraction is tried again from the
\* progress-30 checkpoint instead of being rejected into the inner catch.
FfmpegExitRetries(id, ok) ==
    /\ run[id].pc = "ffmpeg"
    /\ IF ok
       THEN /\ staged' = staged \cup {audioPath(id)}
            /\ run' = [run EXCEPT ![id] = [@ EXCEPT !.pc = "whisper"]]
            /\ UNCHANGED videos
       ELSE /\ run' = [run EXCEPT ![id] = [@ EXCEPT !.pc = "p30"]]
            /\ UNCHANGED << videos, staged >>
    /\ UNCHANGED << flashcards, currentVideoId, currentFlashcardId, unlinked,
                    chatRequests, lib, studyVars, lastSubmission, unlinkErrors >>

\* The callback of exec(ffmpegCommand): the audio file is staged and the
\* transcription call issued, or the error is rejected into the inner catch.
FfmpegExit(id, ok) ==
    /\ run[id].pc = "ffmpeg"
    /\ IF ok
       THEN /\ staged' = staged \cup {audioPath(id)}
            /\ run' = [run EXCEPT ![id] = [@ EXCEPT !.pc = "whisper"]]
            /\ UNCHANGED videos
       ELSE /\ InnerCatch(id)
            /\ UNCHANGED staged
    /\ UNCHANGED << flashcards, currentVideoId, currentFlashcardId, unlinked,
                    chatRequests, lib, studyVars, lastSubmission, unlinkErrors >>

\* openai.audio.transcriptions.create returns transcription.text. processVideo
\* stores it and awaits; processVideoFromUrl first issues the two unlinks.
WhisperReturns(id, text) ==
    /\ run[id].pc = "whisper"
    /\ videos' = updateVideoTranscription(videos, id, text)
    /\ run' = [run EXCEPT ![id] = [@ EXCEPT !.pc = "transcribed", !.whisper = "ok"]]
    /\ unlinked' = IF run[id].kind = "url"
                   THEN unlinked \cup {tempVideoPath(id), audioPath(id)}
                   ELSE unlinked
    /\ UNCHANGED << flashcards, currentVideoId, currentFlashcardId, staged,
                    chatRequests, lib, studyVars, lastSubmission, unlinkErrors >>

\* Mutant of WhisperThrows: the transcription call is issued again.
WhisperThrowsRetries(id) ==
    /\ run[id].pc = "whisper"
    /\ run[id].whisper = "none"
    /\ run' = [run EXCEPT ![id] = [@ EXCEPT !.whisper = "threw"]]
    /\ UNCHANGED << videos, flashcards, currentVideoId, currentFlashcardId, staged, unlinked,
                    chatRequests, lib, studyVars, lastSubmission, unlinkErrors >>

\* openai.audio.transcriptions.create throws: the inner catch block.
WhisperThrows(id) ==
    /\ run[id].pc = "whisper"
    /\ InnerCatch(id)
    /\ UNCHANGED << flashcards, currentVideoId, currentFlashcardId, staged, unlinked,
                    chatRequests, lib, studyVars, lastSubmission, unlinkErrors >>

\* Mutant of Progress60: the checkpoint written is a share of the stage (20), not 60.
Progress60Regresses(id) ==
    /\ run[id].pc = "transcribed"
    /\ unlinked' = IF run[id].kind = "file" /\ run[id].whisper = "ok"
                   THEN unlinked \cup {audioPath(id)}
                   ELSE unlinked
    /\ videos' = updateVideoStatus(videos, id, "processing", 20)
    /\ run' = [run EXCEPT ![id] = [@ EXCEPT !.pc = "p60"]]
    /\ UNCHANGED << flashcards, currentVideoId, currentFlashcardId, staged,
                    chatRequests, lib, studyVars, lastSubmission, unlinkErrors >>

\* After the await of the transcription write: processVideo, on the path
\* where the transcription call returned, issues fs.unlink(audioPath); then
\* updateVideoStatus(videoId, "processing", 60).
Progress60(id) ==
    /\ run[id].pc = "transcribed"
    /\ unlinked' = IF run[id].kind = "file" /\ run[id].whisper = "ok"
                   THEN unlinked \cup {audioPath(id)}
                   ELSE unlinked
    /\ videos' = updateVideoStatus(videos, id, "processing", 60)
    /\ run' = [run EXCEPT ![id] = [@ EXCEPT !.pc = "p60"]]
    /\ UNCHANGED << flashcards, currentVideoId, currentFlashcardId, staged,
                    chatRequests, lib, studyVars, lastSubmission, unlinkErrors >>

\* Mutant of GetVideo: the run transcribes again and stores the new text.
GetVideoRetranscribes(id) ==
    /\ run[id].pc = "p60"
    /\ videos' = updateVideoTranscription(videos, id, Plain(Good500 \o Done5))
    /\ run' = [run EXCEPT ![id] = [@ EXCEPT !.pc = "gotVideo"]]
    /\ UNCHANGED << flashcards, currentVideoId, currentFlashcardId, staged,
                    unlinked, chatRequests, lib, studyVars, lastSubmission, unlinkErrors >>

\* The second timer fires: `await storage.getVideo(videoId)`.
GetVideo(id) ==
    /\ run[id].pc = "p60"
    /\ run' = [run EXCEPT ![id] = [@ EXCEPT !.pc = "gotVideo"]]
    /\ UNCHANGED << videos, flashcards, currentVideoId, currentFlashcardId, staged,
                    unlinked, chatRequests, lib, studyVars, lastSubmission, unlinkErrors >>

\* Mutant of OuterCatch: the block only logs the error.
OuterCatchOnlyLogs(id, error) ==
    /\ UNCHANGED videos
    /\ run' = [run EXCEPT ![id] = [@ EXCEPT !.pc = "done", !.error = error]]

\* The outer catch block: console.error(error), then
\* updateVideoStatus(videoId, "failed", 0); the run ends after that await.
OuterCatch(id, error) ==
    /\ videos' = updateVideoStatus(videos, id, "failed", 0)
    /\ run' = [run EXCEPT ![id] = [@ EXCEPT !.pc = "done", !.error = error]]

\* Mutant of Generate: the chat-completion request is issued before the
\* transcription is validated.
GenerateRequestsFirst(id) ==
    /\ run[id].pc = "gotVideo"
    /\ LET transcription == Chars(videos[id].transcription) IN
        IF ~Truthy(transcription)
        THEN /\ OuterCatch(id, Error("No transcription available for flashcard generation", <<>>))
             /\ UNCHANGED chatRequests
        ELSE IF lib = Validating /\ ValidateTranscription(transcription) # NoError
        THEN /\ chatRequests' = [chatRequests EXCEPT ![id] = Append(@, videos[id].transcription)]
             /\ run' = [run EXCEPT ![id] = [@ EXCEPT !.pc = "generated",
                           !.generated = Rejected(ValidateTranscription(transcription))]]
             /\ UNCHANGED videos
        ELSE /\ chatRequests' = [chatRequests EXCEPT ![id] = Append(@, videos[id].transcription)]
             /\ run' = [run EXCEPT ![id] = [@ EXCEPT !.pc = "chat"]]
             /\ UNCHANGED videos
    /\ UNCHANGED << flashcards, currentVideoId, currentFlashcardId, staged, unlinked, lib, studyVars, lastSubmission, unlinkErrors >>

\* After the await of getVideo: `if (!video?.transcription) throw ...`, then
\* the call of generateFlashcards(video.transcription), which runs to its
\* first await: it rejects on the validation (where the linked revision has
\* one) or issues the chat-completion request.
Generate(id) ==
    /\ run[id].pc = "gotVideo"
    /\ \E transcription \in { Chars(videos[id].transcription) } :
        IF ~Truthy(transcription)
        THEN /\ OuterCatch(id, Error("No transcription available for flashcard generation", <<>>))
             /\ UNCHANGED chatRequests
        ELSE IF lib = Validating /\ ValidateTranscription(transcription) # NoError
        THEN /\ run' = [run EXCEPT ![id] = [@ EXCEPT !.pc = "generated",
                           !.generated = Rejected(ValidateTranscription(transcription))]]
             /\ UNCHANGED << videos, chatRequests >>
        ELSE /\ chatRequests' = [chatRequests EXCEPT ![id] = Append(@, videos[id].transcription)]
             /\ run' = [run EXCEPT ![id] = [@ EXCEPT !.pc = "chat"]]
             /\ UNCHANGED videos
    /\ UNCHANGED << flashcards, currentVideoId, currentFlashcardId, staged, unlinked, lib, studyVars, lastSubmission, unlinkErrors >>

\* openai.chat.completions.create settles and generateFlashcards runs to its
\* end: it returns the filtered cards, or throws (returns the fallback
\* flashcards, in the other revision).
ChatSettles(id, outcome) ==
    /\ run[id].pc = "chat"
    /\ run' = [run EXCEPT ![id] = [@ EXCEPT !.pc = "generated", !.chatOutcome = outcome,
                  !.generated = IF lib = Validating THEN GenerateValidated(outcome)
                                ELSE GenerateWithFallback(outcome)]]
    /\ UNCHANGED << videos, flashcards, currentVideoId, currentFlashcardId, staged,
                    unlinked, chatRequests, lib, studyVars, lastSubmission, unlinkErrors >>

\* Mutant of Progress80: no `flashcards.length === 0` test (as in the earlier
\* revision of processVideo).
Progress80NoLengthTest(id) ==
    /\ run[id].pc = "generated"
    /\ IF run[id].generated.error # NoError
       THEN OuterCatch(id, run[id].generated.error)
       ELSE /\ videos' = updateVideoStatus(videos, id, "processing", 80)
            /\ run' = [run EXCEPT ![id] = [@ EXCEPT !.pc = "saving",
                          !.flashcards = run[id].generated.cards, !.i = 0]]
    /\ UNCHANGED << flashcards, currentVideoId, currentFlashcardId, staged, unlinked,
                    chatRequests, lib, studyVars, lastSubmission, unlinkErrors >>

\* `const flashcards = await generateFlashcards(...)` resumes: a rejection
\* goes to the outer catch block, as does an empty list; otherwise
\* updateVideoStatus(videoId, "processing", 80).
Progress80(id) ==
    /\ run[id].pc = "generated"
    /\ IF run[id].generated.error # NoError
       THEN OuterCatch(id, run[id].generated.error)
       ELSE IF Len(run[id].generated.cards) = 0
       THEN OuterCatch(id, Error("Failed to generate flashcards from video content", <<>>))
       ELSE /\ videos' = updateVideoStatus(videos, id, "processing", 80)
            /\ run' = [run EXCEPT ![id] = [@ EXCEPT !.pc = "saving",
                          !.flashcards = run[id].generated.cards, !.i = 0]]
    /\ UNCHANGED << flashcards, currentVideoId, currentFlashcardId, staged, unlinked,
                    chatRequests, lib, studyVars, lastSubmission, unlinkErrors >>

\* Mutant of LoopTest: the loop stops one short.
LoopTestOffByOne(i, length) == i < length - 1

\* `i < flashcards.length`, the test of the save loop.
LoopTest(i, length) == i < length

\* Mutant of SaveFlashcard: the order written is taken from the store's id counter.
SaveFlashcardGlobalOrder(id) ==
    /\ run[id].pc = "saving"
    /\ LoopTest(run[id].i, Len(run[id].flashcards))
    /\ LET i == run[id].i IN
        /\ flashcards' = createFlashcard(flashcards, currentFlashcardId,
                            [videoId |-> id,
                             question |-> run[id].flashcards[i + 1].question,
                             answer |-> run[id].flashcards[i + 1].answer,
                             order |-> currentFlashcardId - 1])
        /\ currentFlashcardId' = currentFlashcardId + 1
        /\ run' = [run EXCEPT ![id] = [@ EXCEPT !.i = i + 1]]
    /\ UNCHANGED << videos, currentVideoId, staged, unlinked, chatRequests, lib, studyVars, lastSubmission, unlinkErrors >>

\* One turn of the save loop: createFlashcard({videoId, question, answer, order: i}).
SaveFlashcard(id) ==
    /\ run[id].pc = "saving"
    /\ LoopTest(run[id].i, Len(run[id].flashcards))
    /\ LET i == run[id].i IN
        /\ flashcards' = createFlashcard(flashcards, currentFlashcardId,
                            [videoId |-> id,
                             question |-> run[id].flashcards[i + 1].question,
                             answer |-> run[id].flashcards[i + 1].answer,
                             order |-> i])
        /\ currentFlashcardId' = currentFlashcardId + 1
        /\ run' = [run EXCEPT ![id] = [@ EXCEPT !.i = i + 1]]
    /\ UNCHANGED << videos, currentVideoId, staged, unlinked, chatRequests, lib, studyVars, lastSubmission, unlinkErrors >>

\* Mutant of Complete: the completed write does not wait for the loop to end.
CompleteBeforeLoopEnds(id) ==
    /\ run[id].pc = "saving"
    /\ videos' = updateVideoStatus(videos, id, "completed", 100)
    /\ run' = [run EXCEPT ![id] = [@ EXCEPT !.pc = "completed"]]
    /\ UNCHANGED << flashcards, currentVideoId, currentFlashcardId, staged, unlinked,
                    chatRequests, lib, studyVars, lastSubmission, unlinkErrors >>

\* The save loop ends: updateVideoStatus(videoId, "completed", 100).
Complete(id) ==
    /\ run[id].pc = "saving"
    /\ ~LoopTest(run[id].i, Len(run[id].flashcards))
    /\ videos' = updateVideoStatus(videos, id, "completed", 100)
    /\ run' = [run EXCEPT ![id] = [@ EXCEPT !.pc = "completed"]]
    /\ UNCHANGED << flashcards, currentVideoId, currentFlashcardId, staged, unlinked,
                    chatRequests, lib, studyVars, lastSubmission, unlinkErrors >>

\* Mutant of Cleanup: fs.unlinkSync(filePath) in place of fs.unlink, so that a
\* failing deletion throws into the outer catch block.
CleanupSync(id) ==
    /\ run[id].pc = "completed"
    /\ \/ /\ unlinked' = IF run[id].kind = "file" THEN unlinked \cup {filePath(id)} ELSE unlinked
          /\ run' = [run EXCEPT ![id] = [@ EXCEPT !.pc = "done"]]
          /\ UNCHANGED videos
       \/ /\ run[id].kind = "file"
          /\ OuterCatch(id, Error("ENOENT: no such file or directory, unlink", <<>>))
          /\ UNCHANGED unlinked
    /\ UNCHANGED << flashcards, currentVideoId, currentFlashcardId, staged,
                    chatRequests, lib, studyVars, lastSubmission, unlinkErrors >>

\* After the await of the completed write: processVideo issues
\* fs.unlink(filePath, callback), whose failure reaches only the callback;
\* processVideoFromUrl has nothing left to do. The run ends.
Cleanup(id) ==
    /\ run[id].pc = "completed"
    /\ unlinked' = IF run[id].kind = "file" THEN unlinked \cup {filePath(id)} ELSE unlinked
    /\ run' = [run EXCEPT ![id] = [@ EXCEPT !.pc = "done"]]
    /\ UNCHANGED << videos, flashcards, currentVideoId, currentFlashcardId, staged,
                    chatRequests, lib, studyVars, lastSubmission, unlinkErrors >>

\* Mutant of UnlinkCallback: a failed deletion marks the job failed.
UnlinkCallbackEscalates(path, err) ==
    /\ path \in unlinked /\ path \in staged /\ path \notin unlinkErrors
    /\ IF err
       THEN /\ unlinkErrors' = unlinkErrors \cup {path}
            /\ videos' = updateVideoStatus(videos, path[2], "failed", 0)
            /\ UNCHANGED staged
       ELSE /\ staged' = staged \ {path}
            /\ UNCHANGED << unlinkErrors, videos >>
    /\ UNCHANGED << flashcards, currentVideoId, currentFlashcardId, run, unlinked,
                    chatRequests, lib, studyVars, lastSubmission >>

\* The callback of fs.unlink(path, (err) => { if (err) console.error(...) }):
\* the file is gone, or the error is logged.
UnlinkCallback(path, err) ==
    /\ path \in unlinked /\ path \in staged /\ path \notin unlinkErrors
    /\ IF err
       THEN /\ unlinkErrors' = unlinkErrors \cup {path}
            /\ UNCHANGED staged
       ELSE /\ staged' = staged \ {path}
            /\ UNCHANGED unlinkErrors
    /\ UNCHANGED << videos, flashcards, currentVideoId, currentFlashcardId, run, unlinked,
                    chatRequests, lib, studyVars, lastSubmission >>

\* The steps of the handlers and runs in flight.
Step ==
    \/ \E id \in Ids : Dispatch(id)
    \/ \E id \in Ids : Progress30(id)
    \/ \E id \in Ids : Acquire(id)
    \/ \E id \in Ids, ok \in BOOLEAN : YtDlpExit(id, ok)
    \/ \E id \in Ids, ok \in BOOLEAN : FfmpegExit(id, ok)
    \/ \E id \in Ids : \E text \in TranscriptsFor(id) : WhisperReturns(id, text)
    \/ \E id \in Ids : WhisperThrows(id)
    \/ \E id \in Ids : Progress60(id)
    \/ \E id \in Ids : GetVideo(id)
    \/ \E id \in Ids : Generate(id)
    \/ \E id \in Ids : \E outcome \in ChatOutcomesFor(id) : ChatSettles(id, outcome)
    \/ \E id \in Ids : Progress80(id)
    \/ \E id \in Ids : SaveFlashcard(id)
    \/ \E id \in Ids : Complete(id)
    \/ \E id \in Ids : Cleanup(id)
    \/ \E path \in unlinked, err \in BOOLEAN : UnlinkCallback(path, err)

Next ==
    \/ PostUpload(MaxVideosSolo)
    \/ \E videoUrl \in UrlsFor(currentVideoId) : PostUploadUrl(MaxVideosSolo, videoUrl)
    \/ Step

NextJobs ==
    \/ PostUpload(MaxVideos)
    \/ \E videoUrl \in UrlsFor(currentVideoId) : PostUploadUrl(MaxVideos, videoUrl)
    \/ Step

\* One submission with every input, on the validating revision of
\* generateFlashcards.
Spec == Init /\ [][Next]_vars

\* One submission, where every continuation that is ready is eventually run
\* by the event loop and every external call eventually returns or throws.
SpecLive == Init /\ [][Next]_vars /\ WF_vars(Step)

\* Several submissions whose handlers and runs interleave.
SpecJobs == Init /\ [][NextJobs]_vars

\* One submission, with server/lib/openai.ts as it stands under that name.
SpecWithFallback == InitWithFallback /\ [][Next]_vars

-----------------------------------------------------------------------------
(* The tests a submission passes before a job is created                   *)

\* limits.fileSize
FileSizeLimit == 500 * 1024 * 1024

allowedMimes == { "video/mp4", "video/quicktime", "video/x-msvideo" }

\* Mutant of fileFilter: every file is let through.
fileFilterAcceptsAll(file) == TRUE

\* fileFilter: cb(null, true) or cb(new Error('Invalid file type...'))
fileFilter(file) == file.mimetype \in allowedMimes

Digits == { "0", "1", "2", "3", "4", "5", "6", "7", "8", "9" }
Letters == { LowerCase[k] : k \in 1..26 } \cup { UpperCase[k] : k \in 1..26 }

\* The position of the first ":" of a text, 0 when it has none.
FirstColon(t) ==
    IF \E k \in 1..Len(t) : t[k] = ":"
    THEN CHOOSE k \in 1..Len(t) : t[k] = ":" /\ \A j \in 1..(k - 1) : t[j] # ":"
    ELSE 0

\* The schemes after which the URL parser requires a host.
SpecialSchemes ==
    { << "h","t","t","p" >>, << "h","t","t","p","s" >>, << "f","t","p" >>,
      << "w","s" >>, << "w","s","s" >> }

RECURSIVE SkipSlashes(_)
\* The text without the slashes it starts with.
SkipSlashes(t) ==
    IF t # <<>> /\ t[1] \in { "/", "\\" } THEN SkipSlashes(Tail(t)) ELSE t

\* The host of what follows the slashes: up to the first "/", "?" or "#".
HostOf(t) ==
    LET ends == { k \in 1..Len(t) : t[k] \in { "/", "?", "#" } } IN
    IF ends = {} THEN t
    ELSE SubSeq(t, 1, (CHOOSE k \in ends : \A j \in ends : k <= j) - 1)

\* new URL(videoUrl) does not throw: the text starts with a scheme (a
\* letter, then letters, digits, "+", "-" or "."), a ":" follows it, and
\* after a scheme that requires a host there is one, without a blank.
UrlParses(videoUrl) ==
    LET colon == FirstColon(videoUrl) IN
    /\ colon >= 2
    /\ videoUrl[1] \in Letters
    /\ \A k \in 2..(colon - 1) : videoUrl[k] \in Letters \cup Digits \cup { "+", "-", "." }
    /\ toLowerCase(SubSeq(videoUrl, 1, colon - 1)) \in SpecialSchemes
       => LET host == HostOf(SkipSlashes(SubSeq(videoUrl, colon + 1, Len(videoUrl)))) IN
          /\ host # <<>>
          /\ \A k \in 1..Len(host) : host[k] # " "

\* Files of a multipart request: accepted types at and below the limit, a
\* file over the limit, types that are not accepted.
Files ==
    { [mimetype |-> "video/mp4", size |-> 1],
      [mimetype |-> "video/quicktime", size |-> FileSizeLimit],
      [mimetype |-> "video/x-msvideo", size |-> 1],
      [mimetype |-> "video/mp4", size |-> FileSizeLimit + 1],
      [mimetype |-> "video/webm", size |-> 1],
      [mimetype |-> "image/png", size |-> 1] }

UrlNoScheme ==
    << "y","o","u","t","u","b","e",".","c","o","m","/","w","a","t","c","h" >>
UrlNoHost == << "h","t","t","p",":","/","/" >>
UrlWords == << "n","o","t"," ","a"," ","u","r","l" >>
UrlBlankHost == << "h","t","t","p",":","/","/","a"," ","b",".","c","o","m" >>

\* req.body.videoUrl: missing, empty, texts that are no URL, and URLs.
UrlBodies == { Null, <<>>, UrlNoScheme, UrlNoHost, UrlWords, UrlBlankHost } \cup Urls

\* The answer to a submission that was rejected.
Rejection(route, file, videoUrl, message) ==
    /\ lastSubmission' = [route |-> route, file |-> file, videoUrl |-> videoUrl,
                          answer |-> message]
    /\ UNCHANGED << pipelineVars, studyVars >>

\* POST /api/videos/upload with any request: upload.single('video') passes
\* an error on when fileFilter refuses the file or the file exceeds
\* limits.fileSize, and the handler is not called; the handler answers 400
\* without a file; otherwise it creates the job.
SubmitUpload(limit, file) ==
    IF file # NoFile /\ ~fileFilter(file)
    THEN Rejection("upload", file, Null,
                   "Invalid file type. Only MP4, MOV, and AVI files are allowed.")
    ELSE IF file # NoFile /\ file.size > FileSizeLimit
    THEN Rejection("upload", file, Null, "File too large")
    ELSE IF file = NoFile
    THEN Rejection("upload", file, Null, "No video file provided")
    ELSE /\ CreateUpload(limit)
         /\ lastSubmission' = [route |-> "upload", file |-> file, videoUrl |-> Null,
                               answer |-> "video"]

\* POST /api/videos/upload-url with any body.
SubmitUploadUrl(limit, videoUrl) ==
    IF ~Truthy(videoUrl)
    THEN Rejection("upload-url", NoFile, videoUrl, "No video URL provided")
    ELSE IF ~UrlParses(videoUrl)
    THEN Rejection("upload-url", NoFile, videoUrl, "Invalid URL format")
    ELSE /\ CreateUploadUrl(limit, videoUrl)
         /\ lastSubmission' = [route |-> "upload-url", file |-> NoFile,
                               videoUrl |-> videoUrl, answer |-> "video"]

NextSubmit ==
    \/ \E file \in Files \cup { NoFile } : SubmitUpload(MaxVideosSolo, file)
    \/ \E videoUrl \in UrlBodies : SubmitUploadUrl(MaxVideosSolo, videoUrl)
    \/ Step

\* Submissions of every kind, accepted or not, and the run of the one that
\* is accepted first.
SpecSubmit == Init /\ [][NextSubmit]_vars

-----------------------------------------------------------------------------
(* Study sessions: the two study-session routes and the StudyInterface    *)
(* component of the page                                                   *)

MaxCalls == 2
MaxInflight == 1
MaxAdvances == 3
MaxMarked == 1

\* One generated pair.
OnePair == << Card("q0", "a0") >>

\* The generation outcomes of the job that is studied: 2 or 1 flashcards.
StudyChatOutcomes == { ChatContent(ThreePairsOneEmpty), ChatContent(OnePair) }

\* Indexes a PATCH body sent by something other than the page may carry.
ApiIndexes == { 0 - 1, 2 }

\* Mutant of PostStudySession: the handler does not look for a session.
PostStudySessionNoLookup(videoId) ==
    /\ Len(calls) < MaxCalls
    /\ studySessions' = createStudySession(studySessions, currentStudySessionId,
                                           [videoId |-> videoId])
    /\ currentStudySessionId' = currentStudySessionId + 1
    /\ calls' = Append(calls, [videoId |-> videoId, pc |-> "responded",
                               response |-> studySessions'[currentStudySessionId]])
    /\ UNCHANGED << patches, client >>
    /\ UNCHANGED << pipelineVars, lastSubmission >>

\* POST /api/videos/:id/study-session: getStudySessionByVideoId, `if
\* (!session)` createStudySession, res.json({ session }), for a request
\* whose handler runs in an event-loop turn of its own: the two store
\* methods settle within that turn, so the handler is one step (the two
\* awaits are taken apart in LookupStudySession and InsertStudySession).
\* The call and its response are kept in `calls`.
PostStudySession(videoId) ==
    /\ Len(calls) < MaxCalls
    /\ LET key == getStudySessionByVideoId(studySessions, videoId) IN
       IF key = NaN
       THEN /\ studySessions' = createStudySession(studySessions, currentStudySessionId,
                                                   [videoId |-> videoId])
            /\ currentStudySessionId' = currentStudySessionId + 1
            /\ calls' = Append(calls, [videoId |-> videoId, pc |-> "responded",
                                       response |-> studySessions'[currentStudySessionId]])
       ELSE /\ calls' = Append(calls, [videoId |-> videoId, pc |-> "responded",
                                       response |-> getStudySession(studySessions, key)])
            /\ UNCHANGED << studySessions, currentStudySessionId >>
    /\ UNCHANGED << patches, client >>
    /\ UNCHANGED << pipelineVars, lastSubmission >>

\* POST /api/videos/:id/study-session up to its first await:
\* `let session = await storage.getStudySessionByVideoId(videoId)`. The store
\* is read when the method is called; the handler goes on with what was
\* read when the await resumes.
LookupStudySession(videoId) ==
    /\ Len(calls) < MaxCalls
    /\ calls' = Append(calls,
                  [videoId |-> videoId, pc |-> "lookup",
                   response |-> getStudySession(studySessions,
                                   getStudySessionByVideoId(studySessions, videoId))])
    /\ UNCHANGED << studySessions, currentStudySessionId, patches, client >>
    /\ UNCHANGED << pipelineVars, lastSubmission >>

\* The handler resumes: `if (!session) session = await
\* storage.createStudySession(validatedData)`, then res.json({ session }).
InsertStudySession(c) ==
    /\ calls[c].pc = "lookup"
    /\ IF calls[c].response = NoSession
       THEN /\ studySessions' = createStudySession(studySessions, currentStudySessionId,
                                                   [videoId |-> calls[c].videoId])
            /\ currentStudySessionId' = currentStudySessionId + 1
            /\ calls' = [calls EXCEPT ![c] = [@ EXCEPT !.pc = "responded",
                            !.response = studySessions'[currentStudySessionId]]]
       ELSE /\ calls' = [calls EXCEPT ![c] = [@ EXCEPT !.pc = "responded"]]
            /\ UNCHANGED << studySessions, currentStudySessionId >>
    /\ UNCHANGED << patches, client >>
    /\ UNCHANGED << pipelineVars, lastSubmission >>

\* ProcessingSection sees status completed and calls onComplete: the page
\* shows StudyInterface for the job, with its initial state.
ProcessingComplete ==
    /\ client.appState = "processing"
    /\ client.videoId \in DOMAIN videos
    /\ videos[client.videoId].status = "completed"
    /\ client' = [client EXCEPT !.appState = "study", !.rendered = TRUE,
                     !.session = NoSession, !.cards = 0, !.currentCardIndex = 0]
    /\ UNCHANGED << studySessions, currentStudySessionId, calls, patches >>
    /\ UNCHANGED << pipelineVars, lastSubmission >>

\* The flashcards query has its data: flashcardsData.flashcards.
FlashcardsFetched ==
    /\ client.rendered
    /\ client.cards = 0
    /\ client' = [client EXCEPT
                     !.cards = Len(getFlashcardsByVideoId(flashcards, client.videoId))]
    /\ UNCHANGED << studySessions, currentStudySessionId, calls, patches >>
    /\ UNCHANGED << pipelineVars, lastSubmission >>

\* The study-session query has the response of one of the calls as its
\* data; when the data differ from what it had, the effect copies
\* session.currentCardIndex into the component.
SessionFetched(c) ==
    /\ client.rendered
    /\ calls[c].pc = "responded"
    /\ calls[c].videoId = client.videoId
    /\ calls' = [calls EXCEPT ![c] = [@ EXCEPT !.pc = "delivered"]]
    /\ client' = IF calls[c].response = client.session THEN client
                 ELSE [client EXCEPT !.session = calls[c].response,
                          !.currentCardIndex = calls[c].response.currentCardIndex]
    /\ UNCHANGED << studySessions, currentStudySessionId, patches >>
    /\ UNCHANGED << pipelineVars, lastSubmission >>

\* const currentCard = flashcards[currentCardIndex]: the buttons are on the
\* page when it is defined.
HasCurrentCard ==
    /\ client.rendered
    /\ 0 <= client.currentCardIndex
    /\ client.currentCardIndex < client.cards

\* updateSessionMutation.mutate(updates): the PATCH request is sent to
\* /api/study-sessions/${sessionData?.session.id}.
Mutate(updates) == patches \cup { [id |-> client.session.id, updates |-> updates] }

\* Mutant of handleNextCard: the test is against flashcards.length.
handleNextCardToLength ==
    /\ HasCurrentCard
    /\ client.advances < MaxAdvances
    /\ Cardinality(patches) < MaxInflight
    /\ IF client.currentCardIndex < client.cards
       THEN /\ client' = [client EXCEPT !.currentCardIndex = client.currentCardIndex + 1,
                             !.advances = @ + 1]
            /\ patches' = Mutate([currentCardIndex |-> client.currentCardIndex + 1])
       ELSE /\ client' = [client EXCEPT !.appState = "completion", !.advances = @ + 1]
            /\ patches' = Mutate([completedAt |-> IsoNow])
    /\ UNCHANGED << studySessions, currentStudySessionId, calls >>
    /\ UNCHANGED << pipelineVars, lastSubmission >>

\* handleNextCard: the next card, or at the last card the completion of the
\* session and onComplete (the page turns to the completion section).
handleNextCard ==
    /\ HasCurrentCard
    /\ client.advances < MaxAdvances
    /\ Cardinality(patches) < MaxInflight
    /\ IF client.currentCardIndex < client.cards - 1
       THEN /\ client' = [client EXCEPT !.currentCardIndex = client.currentCardIndex + 1,
                             !.advances = @ + 1]
            /\ patches' = Mutate([currentCardIndex |-> client.currentCardIndex + 1])
       ELSE /\ client' = [client EXCEPT !.appState = "completion", !.advances = @ + 1]
            /\ patches' = Mutate([completedAt |-> IsoNow])
    /\ UNCHANGED << studySessions, currentStudySessionId, calls >>
    /\ UNCHANGED << pipelineVars, lastSubmission >>

\* handlePreviousCard (the button is disabled at index 0).
handlePreviousCard ==
    /\ HasCurrentCard
    /\ Cardinality(patches) < MaxInflight
    /\ client.currentCardIndex > 0
    /\ client' = [client EXCEPT !.currentCardIndex = client.currentCardIndex - 1]
    /\ patches' = Mutate([currentCardIndex |-> client.currentCardIndex - 1])
    /\ UNCHANGED << studySessions, currentStudySessionId, calls >>
    /\ UNCHANGED << pipelineVars, lastSubmission >>

\* Array.prototype.includes on a list of indexes.
IncludesIndex(list, index) == \E k \in 1..Len(list) : list[k] = index

\* session?.completedCards || [] and session?.reviewCards || []
CachedList(field) ==
    IF client.session = NoSession THEN <<>> ELSE client.session[field]

\* handleMarkLearned and handleMarkReview
handleMark(field) ==
    /\ HasCurrentCard
    /\ Cardinality(patches) < MaxInflight
    /\ Len(CachedList(field)) < MaxMarked
    /\ ~IncludesIndex(CachedList(field), client.currentCardIndex)
    /\ patches' = Mutate([f \in {field} |-> Append(CachedList(field), client.currentCardIndex)])
    /\ UNCHANGED << studySessions, currentStudySessionId, calls, client >>
    /\ UNCHANGED << pipelineVars, lastSubmission >>

\* handleShuffle: randomIndex = Math.floor(Math.random() * flashcards.length)
handleShuffle(randomIndex) ==
    /\ HasCurrentCard
    /\ Cardinality(patches) < MaxInflight
    /\ randomIndex \in 0..(client.cards - 1)
    /\ client' = [client EXCEPT !.currentCardIndex = randomIndex]
    /\ patches' = Mutate([currentCardIndex |-> randomIndex])
    /\ UNCHANGED << studySessions, currentStudySessionId, calls >>
    /\ UNCHANGED << pipelineVars, lastSubmission >>

\* React commits the page in the completion state: StudyInterface is gone.
Unmount ==
    /\ client.rendered
    /\ client.appState = "completion"
    /\ client' = [client EXCEPT !.rendered = FALSE]
    /\ UNCHANGED << studySessions, currentStudySessionId, calls, patches >>
    /\ UNCHANGED << pipelineVars, lastSubmission >>

\* PATCH /api/study-sessions/:id: updateStudySession(sessionId, req.body).
\* The getStudySession and the response that follow change nothing, and
\* the page does not read the response.
PatchStudySession(p) ==
    /\ p \in patches
    /\ studySessions' = updateStudySession(studySessions, p.id, p.updates)
    /\ patches' = patches \ {p}
    /\ UNCHANGED << currentStudySessionId, calls, client >>
    /\ UNCHANGED << pipelineVars, lastSubmission >>

\* A PATCH request that does not come from the page: any id, any index.
PatchRequest(id, index) ==
    /\ Cardinality(patches) < MaxInflight
    /\ patches' = patches \cup { [id |-> id, updates |-> [currentCardIndex |-> index]] }
    /\ UNCHANGED << studySessions, currentStudySessionId, calls, client >>
    /\ UNCHANGED << pipelineVars, lastSubmission >>

\* The run of the job that is studied: an uploaded file whose transcription
\* call returns and whose generation returns one of StudyChatOutcomes.
StudyPipeline ==
    \/ \E id \in Ids : Dispatch(id)
    \/ \E id \in Ids : Progress30(id)
    \/ \E id \in Ids : Acquire(id)
    \/ \E id \in Ids : FfmpegExit(id, TRUE)
    \/ \E id \in Ids : WhisperReturns(id, Plain(Good500))
    \/ \E id \in Ids : Progress60(id)
    \/ \E id \in Ids : GetVideo(id)
    \/ \E id \in Ids : Generate(id)
    \/ \E id \in Ids : \E outcome \in StudyChatOutcomes : ChatSettles(id, outcome)
    \/ \E id \in Ids : Progress80(id)
    \/ \E id \in Ids : SaveFlashcard(id)
    \/ \E id \in Ids : Complete(id)
    \/ \E id \in Ids : Cleanup(id)
    \/ \E path \in unlinked : UnlinkCallback(path, FALSE)

\* The study-session routes and the page.
StudyStep ==
    \/ \E videoId \in DOMAIN videos : PostStudySession(videoId)
    \/ ProcessingComplete
    \/ FlashcardsFetched
    \/ \E c \in DOMAIN calls : SessionFetched(c)
    \/ handleNextCard
    \/ handlePreviousCard
    \/ \E field \in {"completedCards", "reviewCards"} : handleMark(field)
    \/ \E randomIndex \in 0..(MaxAdvances - 1) : handleShuffle(randomIndex)
    \/ Unmount
    \/ \E p \in patches : PatchStudySession(p)

NextStudy ==
    \/ PostUpload(MaxVideosSolo)
    \/ StudyPipeline
    \/ StudyStep

\* The study-session routes called by something other than the page.
NextStudyApi ==
    \/ PostUpload(MaxVideosSolo)
    \/ StudyPipeline
    \/ \E videoId \in DOMAIN videos : PostStudySession(videoId)
    \/ \E id \in DOMAIN studySessions, index \in ApiIndexes : PatchRequest(id, index)
    \/ \E p \in patches : PatchStudySession(p)

\* Bodies of a PATCH sent by something other than the page that name the
\* fields createStudySession sets once.
ApiBodies == { [id |-> 2], [videoId |-> 2], [videoId |-> 1] }

\* PATCH /api/study-sessions/:id with such a body: `const updates =
\* req.body`, handed to updateStudySession as it is.
PatchRequestBody(id, updates) ==
    /\ Cardinality(patches) < MaxInflight
    /\ patches' = patches \cup { [id |-> id, updates |-> updates] }
    /\ UNCHANGED << studySessions, currentStudySessionId, calls, client >>
    /\ UNCHANGED << pipelineVars, lastSubmission >>

\* The study-session routes with PATCH bodies of any field.
NextPatch ==
    \/ PostUpload(MaxVideosSolo)
    \/ StudyPipeline
    \/ \E videoId \in DOMAIN videos : PostStudySession(videoId)
    \/ \E id \in DOMAIN studySessions, updates \in ApiBodies : PatchRequestBody(id, updates)
    \/ \E p \in patches : PatchStudySession(p)

\* The create-session route with its two awaits as separate steps, which the
\* steps of another request may fall between.
NextSessions ==
    \/ PostUpload(MaxVideosSolo)
    \/ StudyPipeline
    \/ \E videoId \in DOMAIN videos : LookupStudySession(videoId)
    \/ \E c \in DOMAIN calls : InsertStudySession(c)

\* One job and its study session, driven through the page.
SpecStudy == Init /\ [][NextStudy]_vars

\* One job and its study session, with PATCH requests that do not come from
\* the page.
SpecStudyApi == Init /\ [][NextStudyApi]_vars

\* One job and its study sessions, with PATCH bodies that name id or videoId.
SpecPatch == Init /\ [][NextPatch]_vars

\* One job and the create-session requests for it, interleaved at their
\* awaits.
SpecSessions == Init /\ [][NextSessions]_vars

-----------------------------------------------------------------------------
(* The validation of generateFlashcards on transcripts of chosen lengths  *)
(* and contents: an uploaded file whose transcription call returns one of *)
(* GateTranscripts.                                                        *)

\* The stored text of n characters: the phrase repeated without end.
CycleText(phrase, n) ==
    << << phrase, n \div Len(phrase) >>,
       << SubSeq(phrase, 1, n % Len(phrase)), 1 >> >>

\* The stored text of n characters that ends in the tail, the phrase
\* repeated before it.
WithTail(phrase, n, tail) == CycleText(phrase, n - Len(tail)) \o Plain(tail)

MixedPhrase == \* 32 characters, fingerprints in capitals beside keywords
    << "A","n"," ","E","R","R","O","R"," ","i","n"," ","B","i","l","l",
       "i","n","g",";"," ","K","e","y"," ","T","o","p","i","c","."," " >>

QuotaPhrase == QuotaHead \o AConcept

GatePhrases == { Phrase25, P12, MixedPhrase, QuotaPhrase }

\* Lengths around the lower threshold.
GateLengths == { 0, 40, 99, 100, 120 }

\* Lengths of long transcripts, around the upper bound.
GateLongLengths == { 3000, 50000, 50001 }

\* The five fingerprints as a transcript may spell them.
FingerprintSpellings ==
    { << "e","r","r","o","r" >>, << "E","R","R","O","R" >>,
      << "F","a","i","l","e","d" >>,
      << "a","p","i"," ","k","e","y" >>, << "A","P","I"," ","K","e","y" >>,
      << "Q","U","O","T","A" >>,
      << "B","i","l","l","i","n","g" >>, << "b","i","l","l","i","n","g" >> }

\* 3000 characters containing "concept" and "example", and "failed".
Concept3000Failed == WithTail(Phrase25, 3000, << " ","f","a","i","l","e","d","." >>)

GateTranscripts ==
    { CycleText(phrase, n) : phrase \in GatePhrases, n \in GateLengths }
    \cup { CycleText(phrase, n) : phrase \in { Phrase25, P12 }, n \in GateLongLengths }
    \cup { WithTail(Phrase25, 120, spelling) : spelling \in FingerprintSpellings }
    \cup { Plain(Quota120), Concept3000Failed }

GateChatOutcomes == { ChatThrows(MsgNet), ChatContent(ThreePairsOneEmpty) }

GateTranscriptsFor(id) == IF id = 1 THEN GateTranscripts ELSE { Plain(Good500) }

NextGate ==
    \/ PostUpload(MaxVideosSolo)
    \/ \E id \in Ids : Dispatch(id)
    \/ \E id \in Ids : Progress30(id)
    \/ \E id \in Ids : Acquire(id)
    \/ \E id \in Ids : FfmpegExit(id, TRUE)
    \/ \E id \in Ids : \E text \in GateTranscriptsFor(id) : WhisperReturns(id, text)
    \/ \E id \in Ids : Progress60(id)
    \/ \E id \in Ids : GetVideo(id)
    \/ \E id \in Ids : Generate(id)
    \/ \E id \in Ids : \E outcome \in GateChatOutcomes : ChatSettles(id, outcome)
    \/ \E id \in Ids : Progress80(id)
    \/ \E id \in Ids : SaveFlashcard(id)
    \/ \E id \in Ids : Complete(id)
    \/ \E id \in Ids : Cleanup(id)
    \/ \E path \in unlinked, err \in BOOLEAN : UnlinkCallback(path, err)

\* One uploaded file whose transcript is any of GateTranscripts.
SpecGate == Init /\ [][NextGate]_vars

-----------------------------------------------------------------------------
(* Properties *)

Jobs == DOMAIN videos

\* The flashcards stored for a job, in the order the store inserted them.
CardsOf(id) == SelectSeq(flashcards, LAMBDA card : card.videoId = id)

StatusEdges ==
    { << "uploading", "processing" >>,
      << "processing", "completed" >>,
      << "processing", "failed" >> }

\* C1: a job is created with status uploading, and in every step a job's
\* status either stays what it is or moves along uploading -> processing,
\* processing -> completed or processing -> failed.
C1_StatusFollowsEdges ==
    [][ /\ \A id \in Jobs :
            \/ videos'[id].status = videos[id].status
            \/ << videos[id].status, videos'[id].status >> \in StatusEdges
        /\ \A id \in (DOMAIN videos') \ Jobs : videos'[id].status = "uploading"
      ]_vars

\* C1 witness: a job whose inner catch block ran has reached failed, so it
\* went uploading -> processing -> failed through the fallback path.
C1_Witness ==
    \E id \in Jobs : videos[id].status = "failed" /\ run[id].fallback

ProgressSteps == { << 10, 30 >>, << 30, 60 >>, << 60, 80 >> }

\* C2: between two successive states in which a job is processing, its
\* progress stays or moves to the next of the checkpoints 10, 30, 60, 80;
\* a job enters processing with 10, and 100 is written only together with
\* completed, from checkpoint 80.
C2_ProgressMonotonic ==
    [][ \A id \in Jobs :
          LET old == videos[id]
              new == videos'[id]
          IN  /\ (old.status = "processing" /\ new.status = "processing")
                    => /\ new.processingProgress >= old.processingProgress
                       /\ \/ new.processingProgress = old.processingProgress
                          \/ << old.processingProgress, new.processingProgress >> \in ProgressSteps
              /\ (old.status # "processing" /\ new.status = "processing")
                    => new.processingProgress = 10
              /\ (new.processingProgress = 100 /\ old.processingProgress # 100)
                    => /\ new.status = "completed"
                       /\ old.status = "processing" /\ old.processingProgress = 80
      ]_vars

\* C2 witness: a processing job stands at the last checkpoint, having been
\* read at 10, 30 and 60 before.
C2_Witness ==
    \E id \in Jobs : videos[id].status = "processing" /\ videos[id].processingProgress = 80

\* C3 as claimed: a job has a flashcard if and only if it is completed.
C3_FlashcardsIffCompleted ==
    \A id \in Jobs : (CardsOf(id) # <<>>) <=> (videos[id].status = "completed")

\* C3 as amended: a job has flashcards only while it is completed or is
\* processing at checkpoint 80 (the save loop is writing them); it has none
\* while uploading, failed or processing below 80; every completed job has
\* at least one.
C3_FlashcardsOnlyFromSaveLoop ==
    \A id \in Jobs :
        /\ CardsOf(id) # <<>> =>
              \/ videos[id].status = "completed"
              \/ videos[id].status = "processing" /\ videos[id].processingProgress = 80
        /\ videos[id].status = "completed" => CardsOf(id) # <<>>

\* C3 witness: the save loop has stored some but not all cards of a job
\* that is still processing.
C3_Witness ==
    \E id \in Jobs :
        /\ videos[id].status = "processing"
        /\ CardsOf(id) # <<>>
        /\ Len(CardsOf(id)) < Len(run[id].flashcards)

\* The entries of a provider response that have both a question and an
\* answer, in the order the provider returned them.
ValidPairs(raw) ==
    SelectSeq(raw, LAMBDA pair : /\ pair # NullEntry
                                 /\ pair.question \notin { Undefined, "" }
                                 /\ pair.answer \notin { Undefined, "" })

\* C4: in every state, the ordinals of the flashcards stored for a job are
\* exactly 0..N-1 for the N cards stored, without gap or duplicate, and the
\* card at ordinal i carries the i-th valid pair of the provider's response;
\* checked with the save loops of several jobs interleaving.
C4_OrdinalsContiguous ==
    \A id \in Jobs :
        LET mine == CardsOf(id)
            N == Len(mine)
            valid == ValidPairs(run[id].chatOutcome.cards)
        IN  /\ { mine[k].order : k \in 1..N } = 0..(N - 1)
            /\ N <= Len(valid)
            /\ \A k \in 1..N :
                  /\ mine[k].question = valid[mine[k].order + 1].question
                  /\ mine[k].answer = valid[mine[k].order + 1].answer

\* C4 witness: the flashcard writes of two jobs alternate in the store (a
\* card of one job lies between two cards of the other) and the first job
\* has dropped an invalid pair.
C4_Witness ==
    /\ Len(flashcards) >= 3
    /\ \E k \in 1..(Len(flashcards) - 2) :
          /\ flashcards[k].videoId = flashcards[k + 2].videoId
          /\ flashcards[k].videoId # flashcards[k + 1].videoId
    /\ \E id \in Jobs :
          /\ Len(CardsOf(id)) >= 5
          /\ Len(ValidPairs(run[id].chatOutcome.cards)) < Len(run[id].chatOutcome.cards)

\* C5: once a job is completed or failed its status and progress never
\* change again, whatever step follows (the cleanup step included), and
\* whenever a job is completed every flashcard of its run is in the store.
C5_TerminalStatuses ==
    /\ [](\A id \in Jobs :
            videos[id].status = "completed" =>
                /\ Len(CardsOf(id)) = Len(run[id].flashcards)
                /\ \A k \in 1..Len(CardsOf(id)) :
                      /\ CardsOf(id)[k].question = run[id].flashcards[k].question
                      /\ CardsOf(id)[k].answer = run[id].flashcards[k].answer)
    /\ [][ \A id \in Jobs :
              videos[id].status \in { "completed", "failed" } =>
                  /\ videos'[id].status = videos[id].status
                  /\ videos'[id].processingProgress = videos[id].processingProgress
         ]_vars

\* C5 witness: a completed job whose run has gone through its cleanup step
\* and ended.
C5_Witness ==
    \E id \in Jobs : videos[id].status = "completed" /\ run[id].pc = "done"

\* C6: a run of processVideo whose transcription call returned a substantive
\* transcript of 500 characters and whose chat completion returned 10 valid
\* pairs ends with the job completed at progress 100 and with exactly 10
\* flashcards, at ordinals 0..9 in insertion order.
C6_EndToEndSuccess ==
    \A id \in Jobs :
        ( /\ run[id].kind = "file"
          /\ run[id].whisper = "ok"
          /\ Chars(videos[id].transcription) = Good500
          /\ Len(Chars(videos[id].transcription)) = 500
          /\ run[id].chatOutcome.type = "content"
          /\ Len(run[id].chatOutcome.cards) = 10
          /\ ValidPairs(run[id].chatOutcome.cards) = run[id].chatOutcome.cards
          /\ run[id].pc = "done" )
        => /\ videos[id].status = "completed"
           /\ videos[id].processingProgress = 100
           /\ Len(CardsOf(id)) = 10
           /\ \A k \in 1..10 : CardsOf(id)[k].order = k - 1

\* C6 witness: such a run has ended.
C6_Witness ==
    \E id \in Jobs :
        /\ run[id].kind = "file"
        /\ Chars(videos[id].transcription) = Good500
        /\ run[id].chatOutcome = ChatContent(TenPairs)
        /\ run[id].pc = "done"

\* C7: for every job submitted with a URL that contains neither
\* 'youtube.com' nor 'youtu.be', no chat-completion request is ever made
\* with the job's placeholder text, no flashcard is stored for the job, and
\* the run ends with the job failed.
C7_UnsupportedUrlFails ==
    \A id \in Jobs :
        (run[id].kind = "url" /\ ~IsYouTube(run[id].videoUrl))
        => /\ chatRequests[id] = <<>>
           /\ CardsOf(id) = <<>>
           /\ run[id].pc = "done" => videos[id].status = "failed"

\* C8: whenever the chat-completion call of a job has thrown or has come
\* back without a flashcards array, generateFlashcards has settled with an
\* error, and the job is never completed and has no flashcards.
C8_ProviderFailureFails ==
    \A id \in Jobs :
        run[id].chatOutcome.type \in { "throw", "noarray" }
        => /\ run[id].generated.error # NoError
           /\ run[id].generated.cards = <<>>
           /\ videos[id].status # "completed"
           /\ CardsOf(id) = <<>>

\* C9: a run whose inner catch block ran (extraction, download or the
\* transcription call threw) holds the fallback text as its transcription,
\* makes no chat-completion request, stores no flashcard, is never
\* completed, and ends with the job failed at progress 0.
C9_FallbackEndsFailed ==
    \A id \in Jobs :
        run[id].fallback
        => /\ Chars(videos[id].transcription) =
                 (IF run[id].kind = "file" THEN FileFallbackText
                  ELSE UrlFallbackPrefix \o run[id].videoUrl \o UrlFallbackSuffix)
           /\ chatRequests[id] = <<>>
           /\ CardsOf(id) = <<>>
           /\ videos[id].status \in { "processing", "failed" }
           /\ run[id].pc = "done" =>
                 videos[id].status = "failed" /\ videos[id].processingProgress = 0

\* C9 witness: the run of a URL job whose transcription call threw has
\* ended; its fallback text embeds a URL that contains an educational keyword.
C9_Witness ==
    \E id \in Jobs :
        /\ run[id].fallback
        /\ run[id].kind = "url"
        /\ run[id].whisper = "threw"
        /\ \E keyword \in educationalKeywords : includes(run[id].videoUrl, keyword)
        /\ run[id].pc = "done"

\* GET /api/videos/:id, for a stored job: res.json({ video }).
VideoResponse(id) == videos[id]

\* ProcessingSection, status "failed":
\* (video as any)?.errorMessage || "An unknown error occurred during processing"
errorMessage(video) ==
    IF "errorMessage" \in DOMAIN video /\ TruthyField(video.errorMessage)
    THEN video.errorMessage
    ELSE "An unknown error occurred during processing"

SubmitResponse(id, videoUrl) ==
    [NewVideo(id, videoUrl) EXCEPT !.status = "processing", !.processingProgress = 10]

\* A stage of the job's run has thrown: the extraction, the download or the
\* transcription call (inner catch block), the transcription test, or
\* generateFlashcards.
Faulted(id) ==
    \/ run[id].fallback
    \/ run[id].generated.error # NoError
    \/ run[id].error # NoError

\* C11: a run in which a stage threw ends with the job failed, and from the
\* fault on the job is never completed; the response of the submission
\* handler is fixed by the submission alone and is never altered by the
\* run, whether it succeeds or fails; and the step that marks a job failed
\* leaves every other job's record, every flashcard and both id counters as
\* they were.
C11_FaultsBecomeFailed ==
    /\ [](\A id \in Jobs :
            /\ Faulted(id) => videos[id].status # "completed"
            /\ (Faulted(id) /\ run[id].pc = "done") => videos[id].status = "failed"
            /\ run[id].pc # "created" =>
                  run[id].response = SubmitResponse(id, run[id].videoUrl))
    /\ [][ \A id \in Jobs :
              (videos[id].status # "failed" /\ videos'[id].status = "failed")
              => /\ \A other \in Jobs \ {id} : videos'[other] = videos[other]
                 /\ flashcards' = flashcards
                 /\ currentVideoId' = currentVideoId
                 /\ currentFlashcardId' = currentFlashcardId
         ]_vars

\* C11 witness: one job has failed on a provider error and another job,
\* submitted to the same store, has completed with its flashcards.
C11_Witness ==
    \E id \in Jobs, other \in Jobs :
        /\ id # other
        /\ videos[id].status = "failed"
        /\ run[id].chatOutcome.type = "throw"
        /\ videos[other].status = "completed"
        /\ CardsOf(other) # <<>>

\* The question and answer of each stored card, as a reader of
\* GET /api/videos/:id/flashcards receives them.
PersistedPairs(id) ==
    LET cards == getFlashcardsByVideoId(flashcards, id)
    IN  [k \in 1..Len(cards) |-> Card(cards[k].question, cards[k].answer)]

\* C12: for every provider response list with at least one entry that has
\* both a non-empty question and a non-empty answer, the run ends with the
\* job completed and its persisted flashcards are exactly those entries, in
\* their original relative order; no other entry fails the batch.
C12_FilterKeepsValidPairs ==
    \A id \in Jobs :
        ( /\ run[id].chatOutcome.type = "content"
          /\ ValidPairs(run[id].chatOutcome.cards) # <<>>
          /\ run[id].pc = "done" )
        => /\ videos[id].status = "completed"
           /\ PersistedPairs(id) = ValidPairs(run[id].chatOutcome.cards)

\* C12, the case the code meets: the same for every provider response list
\* whose entries are all objects (9 pairs with one empty answer give 8
\* flashcards).
C12_FilterKeepsValidPairsOfObjects ==
    \A id \in Jobs :
        ( /\ run[id].chatOutcome.type = "content"
          /\ ~MapThrows(run[id].chatOutcome.cards)
          /\ ValidPairs(run[id].chatOutcome.cards) # <<>>
          /\ run[id].pc = "done" )
        => /\ videos[id].status = "completed"
           /\ PersistedPairs(id) = ValidPairs(run[id].chatOutcome.cards)
           /\ run[id].chatOutcome.cards = NinePairsOneEmpty => Len(PersistedPairs(id)) = 8

\* C13: when the provider's response holds no entry with both a non-empty
\* question and a non-empty answer, checkpoint 80 is never written for the
\* job, no flashcard is created for it, it is never completed, and its run
\* ends with the job failed.
C13_NoValidPairFails ==
    \A id \in Jobs :
        ( /\ run[id].chatOutcome.type = "content"
          /\ ValidPairs(run[id].chatOutcome.cards) = <<>> )
        => /\ videos[id].processingProgress \notin { 80, 100 }
           /\ videos[id].status # "completed"
           /\ CardsOf(id) = <<>>
           /\ run[id].pc # "saving"
           /\ run[id].pc = "done" => videos[id].status = "failed"

\* C13 witness: the run of a job whose provider response had two entries,
\* neither of them valid, has ended.
C13_Witness ==
    \E id \in Jobs :
        /\ run[id].chatOutcome = ChatContent(NoValidPair)
        /\ run[id].pc = "done"

\* The run has called generateFlashcards, or has thrown on the test before it.
PastGate(id) == run[id].pc \in { "chat", "generated", "saving", "completed", "done" }

\* The message of the error the run's generation stage ended with ("" for none).
StageError(id) ==
    IF run[id].generated.error # NoError THEN run[id].generated.error[1]
    ELSE run[id].error[1]

TooShortMessage == "Transcription is too short to generate meaningful flashcards"

\* C14: a run whose transcript has fewer than 100 characters, whatever they
\* are, never makes the chat-completion request, stores no flashcard and
\* ends with the job failed; a transcript of exactly 100 characters is not
\* rejected as too short.
C14_LengthRule ==
    \A id \in Jobs :
        PastGate(id) =>
            LET transcription == Chars(videos[id].transcription)
            IN  /\ Len(transcription) < 100
                   => /\ StageError(id) # ""
                      /\ chatRequests[id] = <<>>
                      /\ CardsOf(id) = <<>>
                      /\ run[id].pc \in { "generated", "done" }
                      /\ run[id].pc = "done" => videos[id].status = "failed"
                /\ (0 < Len(transcription) /\ Len(transcription) < 100)
                   => StageError(id) = TooShortMessage
                /\ Len(transcription) = 100 => StageError(id) # TooShortMessage

\* C14 witness: a transcript of 99 characters made of educational keywords
\* has been rejected and the run has ended.
C14_Witness ==
    \E id \in Jobs :
        /\ Chars(videos[id].transcription) = Cycle(Phrase25, 99)
        /\ run[id].pc = "done"
        /\ videos[id].status = "failed"

\* A transcript of exactly 100 characters has passed the validation and its
\* job has completed.
C14_ThresholdAccepted ==
    \E id \in Jobs :
        /\ Len(Chars(videos[id].transcription)) = 100
        /\ videos[id].status = "completed"

\* Two characters are the same letter, capital or small.
SameLetter(a, b) ==
    \/ a = b
    \/ a \in DOMAIN LowerCaseOf /\ LowerCaseOf[a] = b
    \/ b \in DOMAIN LowerCaseOf /\ LowerCaseOf[b] = a

\* The text contains the word, letter case apart.
ContainsIgnoringCase(t, word) ==
    \E i \in 0..(Len(t) - Len(word)) :
        \A j \in 1..Len(word) : SameLetter(t[i + j], word[j])

\* The text contains one of 'error', 'failed', 'api key', 'quota', 'billing'.
ContainsFingerprint(t) ==
    \E f \in ErrorFingerprints : ContainsIgnoringCase(t, f)

\* C15: a run whose transcript contains one of the fingerprints 'error',
\* 'failed', 'api key', 'quota', 'billing' in any letter case never makes
\* the chat-completion request, stores no flashcard and ends with the job
\* failed, whatever educational keywords the transcript also contains; so
\* does the transcript of 120 characters containing 'quota exceeded'.
C15_FingerprintRule ==
    \A id \in Jobs :
        (PastGate(id) /\ ContainsFingerprint(Chars(videos[id].transcription)))
        => /\ StageError(id) # ""
           /\ chatRequests[id] = <<>>
           /\ CardsOf(id) = <<>>
           /\ run[id].pc \in { "generated", "done" }
           /\ run[id].pc = "done" => videos[id].status = "failed"

\* C15 witness: a transcript of 120 characters full of educational keywords
\* and ending in 'API Key' has been rejected and the run has ended.
C15_Witness ==
    \E id \in Jobs :
        /\ videos[id].transcription =
              WithTail(Phrase25, 120, << "A","P","I"," ","K","e","y" >>)
        /\ Len(Chars(videos[id].transcription)) = 120
        /\ hasEducationalContent(Chars(videos[id].transcription))
        /\ run[id].pc = "done"
        /\ videos[id].status = "failed"

\* The transcript of 120 characters containing 'quota exceeded' has been
\* rejected.
C15_QuotaExceededRejected ==
    \E id \in Jobs :
        /\ Chars(videos[id].transcription) = Quota120
        /\ Len(Quota120) = 120
        /\ run[id].pc = "done"
        /\ videos[id].status = "failed"

Concept == << "c","o","n","c","e","p","t" >>
Example == << "e","x","a","m","p","l","e" >>

\* C16 as claimed: every transcript of 3000 characters that contains
\* 'concept' and 'example' passes the validation, that is, the
\* chat-completion request is made with it.
C16_ConceptExampleAccepted ==
    \A id \in Jobs :
        LET transcription == Chars(videos[id].transcription)
        IN  ( /\ PastGate(id)
              /\ Len(transcription) = 3000
              /\ includes(transcription, Concept)
              /\ includes(transcription, Example) )
            => chatRequests[id] = << videos[id].transcription >>

\* C16 as amended: every transcript of 3000 characters that contains
\* 'concept' and 'example' and none of the fingerprints 'error', 'failed',
\* 'api key', 'quota', 'billing' (in any letter case) passes the
\* validation: the chat-completion request is made with it.
C16_ConceptExampleWithoutFingerprintAccepted ==
    \A id \in Jobs :
        LET transcription == Chars(videos[id].transcription)
        IN  ( /\ PastGate(id)
              /\ Len(transcription) = 3000
              /\ includes(transcription, Concept)
              /\ includes(transcription, Example)
              /\ ~ContainsFingerprint(transcription) )
            => /\ chatRequests[id] = << videos[id].transcription >>
               /\ run[id].pc = "generated" => run[id].chatOutcome # NoOutcome

\* C16 witness: the chat-completion request has been made with a transcript
\* of 3000 characters that contains 'concept' and 'example'.
C16_Witness ==
    \E id \in Jobs :
        /\ Len(Chars(videos[id].transcription)) = 3000
        /\ includes(Chars(videos[id].transcription), Concept)
        /\ includes(Chars(videos[id].transcription), Example)
        /\ run[id].pc = "chat"
        /\ chatRequests[id] = << videos[id].transcription >>

InvalidTranscriptionMessage ==
    "Cannot generate flashcards from error messages or invalid transcriptions"

\* C17: a run whose transcript has more than 50000 characters never makes
\* the chat-completion request, stores no flashcard and ends with the job
\* failed; a transcript of exactly 50000 characters is not rejected for its
\* length: without a fingerprint it does not get the error of the
\* upper-bound test, and with an educational keyword the chat-completion
\* request is made with it.
C17_UpperBound ==
    \A id \in Jobs :
        PastGate(id) =>
            LET transcription == Chars(videos[id].transcription)
            IN  /\ Len(transcription) > 50000
                   => /\ StageError(id) = InvalidTranscriptionMessage
                      /\ chatRequests[id] = <<>>
                      /\ CardsOf(id) = <<>>
                      /\ run[id].pc \in { "generated", "done" }
                      /\ run[id].pc = "done" => videos[id].status = "failed"
                /\ (Len(transcription) = 50000 /\ ~ContainsFingerprint(transcription))
                   => /\ StageError(id) # InvalidTranscriptionMessage
                      /\ (\E keyword \in educationalKeywords :
                              ContainsIgnoringCase(transcription, keyword))
                         => chatRequests[id] = << videos[id].transcription >>

\* C17 witness: a transcript of 50001 characters made of educational
\* keywords, with no fingerprint, has been rejected and the run has ended.
C17_Witness ==
    \E id \in Jobs :
        /\ Len(Chars(videos[id].transcription)) = 50001
        /\ hasEducationalContent(Chars(videos[id].transcription))
        /\ ~ContainsFingerprint(Chars(videos[id].transcription))
        /\ run[id].pc = "done"
        /\ videos[id].status = "failed"

\* A transcript of exactly 50000 characters has passed the validation and
\* its job has completed.
C17_BoundAccepted ==
    \E id \in Jobs :
        /\ Len(Chars(videos[id].transcription)) = 50000
        /\ videos[id].status = "completed"

\* The transcript is one the quality gate is to reject: too short, holding
\* a fingerprint, too long, or without any educational keyword.
GateRejects(t) ==
    \/ Len(t) < 100
    \/ ContainsFingerprint(t)
    \/ Len(t) > 50000
    \/ ~\E keyword \in educationalKeywords : ContainsIgnoringCase(t, keyword)

\* C18: every chat-completion request a run has made carries a transcript
\* the gate accepts; a run whose transcript the gate rejects has made no
\* request when generateFlashcards has settled, receives nothing from the
\* provider, stores no flashcard and ends with the job failed.
C18_GateBeforeGeneration ==
    \A id \in Jobs :
        /\ \A k \in 1..Len(chatRequests[id]) : ~GateRejects(Chars(chatRequests[id][k]))
        /\ (PastGate(id) /\ GateRejects(Chars(videos[id].transcription)))
           => /\ chatRequests[id] = <<>>
              /\ run[id].chatOutcome = NoOutcome
              /\ CardsOf(id) = <<>>
              /\ run[id].pc \in { "generated", "done" }
              /\ run[id].pc = "done" => videos[id].status = "failed"

\* C18 witness: a transcript of 120 characters with no fingerprint and no
\* educational keyword has been rejected, and the run has ended with the
\* job failed.
C18_Witness ==
    \E id \in Jobs :
        /\ Len(Chars(videos[id].transcription)) = 120
        /\ ~ContainsFingerprint(Chars(videos[id].transcription))
        /\ GateRejects(Chars(videos[id].transcription))
        /\ run[id].pc = "done"
        /\ videos[id].status = "failed"

\* The temporary files of a job that are on disk.
ArtifactsOf(id) == { path \in staged : path[2] = id }

\* C19: when a run has ended, with its job completed or failed, a deletion
\* has been issued for every temporary file the run staged (the uploaded
\* file, the extracted audio, the downloaded video).
C19_ArtifactsReleased ==
    \A id \in Jobs :
        run[id].pc = "done" => \A path \in ArtifactsOf(id) : path \in unlinked

\* C19, the paths the code does release: a run that ends with its job
\* completed has issued a deletion for every temporary file it staged.
C19_ArtifactsReleasedOnSuccess ==
    \A id \in Jobs :
        (run[id].pc = "done" /\ videos[id].status = "completed")
        => \A path \in ArtifactsOf(id) : path \in unlinked

\* C20: the step in which the callback of fs.unlink receives an error
\* leaves every job's record (status, progress, transcription), every
\* flashcard and every run as they were; and once the deletion of a job's
\* file has failed, a job that is completed stays completed at progress 100.
C20_CleanupFailureOnlyLogged ==
    /\ [][ unlinkErrors' # unlinkErrors
              => /\ videos' = videos
                 /\ flashcards' = flashcards
                 /\ run' = run
                 /\ staged' = staged
         ]_vars
    /\ [][ \A id \in Jobs :
              ( /\ videos[id].status = "completed"
                /\ \E path \in unlinkErrors \cup unlinkErrors' : path[2] = id )
              => /\ videos'[id] = videos[id]
                 /\ CardsOf(id)' = CardsOf(id)
         ]_vars

\* C20 witness: the deletion of the uploaded file of a completed job has
\* failed, and the job is completed with its flashcards.
C20_Witness ==
    \E id \in Jobs :
        /\ filePath(id) \in unlinkErrors
        /\ videos[id].status = "completed"
        /\ videos[id].processingProgress = 100
        /\ CardsOf(id) # <<>>

\* The positions of a run before its call of updateVideoTranscription.
BeforeTranscript == { "created", "p10", "p30", "yt-dlp", "ffmpeg", "whisper" }

\* C21: the transcription of a job is null until the run's one call of
\* updateVideoTranscription (the step that takes the run to "transcribed",
\* whichever of extraction, download and transcription succeeded or threw),
\* that call sets it, and no step changes it afterwards.
C21_TranscriptWrittenOnce ==
    /\ [](\A id \in Jobs :
            (run[id].pc \in BeforeTranscript) <=> (videos[id].transcription = Plain(Null)))
    /\ [][ \A id \in Jobs :
              /\ videos'[id].transcription # videos[id].transcription
                 => /\ videos[id].transcription = Plain(Null)
                    /\ run[id].pc \in BeforeTranscript
                    /\ run'[id].pc = "transcribed"
              /\ run[id].pc \notin BeforeTranscript
                 => /\ run'[id].pc \notin BeforeTranscript
                    /\ run'[id].pc = "transcribed" => run[id].pc = "transcribed"
         ]_vars

\* C21 witness: a run has ended with the job completed, and the job still
\* holds the text the transcription call returned.
C21_Witness ==
    \E id \in Jobs :
        /\ run[id].pc = "done"
        /\ run[id].whisper = "ok"
        /\ videos[id].status = "completed"
        /\ Chars(videos[id].transcription) = Good500

\* C22: within one job's run the stages follow one another: the progress-60
\* write finds the transcription set; every chat-completion request is made
\* after the progress-60 write and carries the stored transcription; a
\* flashcard is written only at progress 80, after the generation call has
\* settled; the completed write is made at progress 80 with every card of
\* the run written; and whenever a job is processing at progress 60 or
\* more its transcription is set.
C22_StagesSequential ==
    /\ [](\A id \in Jobs :
            /\ (videos[id].status = "processing" /\ videos[id].processingProgress >= 60)
               => videos[id].transcription # Plain(Null)
            /\ chatRequests[id] # <<>>
               => /\ chatRequests[id] = << videos[id].transcription >>
                  /\ videos[id].processingProgress >= 60 \/ videos[id].status = "failed")
    /\ [][ \A id \in Jobs :
              /\ (videos[id].processingProgress # 60 /\ videos'[id].processingProgress = 60)
                 => /\ videos[id].transcription # Plain(Null)
                    /\ videos'[id].transcription = videos[id].transcription
                    /\ videos[id].processingProgress = 30
              /\ chatRequests'[id] # chatRequests[id]
                 => /\ videos[id].status = "processing" /\ videos[id].processingProgress = 60
                    /\ chatRequests'[id] = << videos[id].transcription >>
              /\ (videos[id].processingProgress # 80 /\ videos'[id].processingProgress = 80)
                 => /\ run[id].generated.error = NoError
                    /\ run[id].generated.cards # <<>>
                    /\ CardsOf(id) = <<>>
              /\ CardsOf(id)' # CardsOf(id)
                 => /\ videos[id].status = "processing" /\ videos[id].processingProgress = 80
                    /\ videos' = videos
                    /\ Len(CardsOf(id)') = Len(CardsOf(id)) + 1
              /\ (videos[id].status # "completed" /\ videos'[id].status = "completed")
                 => /\ videos[id].processingProgress = 80
                    /\ Len(CardsOf(id)) = Len(run[id].flashcards)
                    /\ CardsOf(id)' = CardsOf(id)
         ]_vars

\* C22 witness: a run has gone through every stage: its request carried
\* the stored transcription, ten cards were written and the job is completed.
C22_Witness ==
    \E id \in Jobs :
        /\ videos[id].status = "completed"
        /\ chatRequests[id] = << videos[id].transcription >>
        /\ Len(CardsOf(id)) = 10

\* C23: the jobs are the ids 1..currentVideoId-1, each with one record and
\* one run; a submission creates a job under an id no job has and leaves
\* the runs of the other jobs as they are; a run is dispatched once (it
\* never returns to its start); and a step that changes a job's record or
\* writes a flashcard of the job is a step of that job's own run.
C23_OneRunPerJob ==
    /\ [](/\ Jobs = 1..(currentVideoId - 1)
          /\ Ids = Jobs
          /\ \A id \in Jobs : videos[id].id = id)
    /\ [][ /\ \A id \in (DOMAIN videos') \ Jobs :
                /\ id = currentVideoId
                /\ run'[id].pc = "created"
                /\ \A other \in Jobs : run'[other] = run[other] /\ videos'[other] = videos[other]
           /\ \A id \in Jobs :
                /\ id \in DOMAIN videos'
                /\ run'[id].pc = "created" => run[id].pc = "created"
                /\ run'[id].kind = run[id].kind
                /\ (videos'[id] # videos[id] \/ CardsOf(id)' # CardsOf(id))
                   => run'[id] # run[id]
         ]_vars

\* C23 witness: a URL submission and a file submission have each had their
\* run dispatched, and both runs have ended.
C23_Witness ==
    \E id \in Jobs, other \in Jobs :
        /\ run[id].kind = "url" /\ run[other].kind = "file"
        /\ run[id].pc = "done" /\ run[other].pc = "done"

\* What the flashcards of a job say, without the ids the store gave them.
CardContents(id) ==
    [k \in 1..Len(CardsOf(id)) |->
        [question |-> CardsOf(id)[k].question, answer |-> CardsOf(id)[k].answer,
         order |-> CardsOf(id)[k].order]]

\* What the run of a job has saved so far, from its own locals.
SavedByRun(id) ==
    [k \in 1..run[id].i |->
        [question |-> run[id].flashcards[k].question,
         answer |-> run[id].flashcards[k].answer, order |-> k - 1]]

\* Two runs were given the same submission and the same outcomes of their
\* external calls.
SameInputs(a, b) ==
    /\ run[a].kind = run[b].kind
    /\ run[a].videoUrl = run[b].videoUrl
    /\ run[a].whisper = run[b].whisper
    /\ run[a].fallback = run[b].fallback
    /\ run[a].chatOutcome = run[b].chatOutcome
    /\ run[a].whisper = "ok" => videos[a].transcription = videos[b].transcription

\* C24: under every interleaving, a step that is not a step of a job's own
\* run leaves the job's record, its flashcards and its generation requests
\* as they are; the flashcards of a job say what its own run has saved,
\* whatever the other runs did; and two finished runs with the same inputs
\* end with the same status, progress, transcript, error and flashcard
\* contents. The ids of the flashcards are left out: they come from the one
\* counter of the store.
C24_RunsIndependent ==
    /\ [][ \A id \in Jobs :
              run'[id] = run[id]
              => /\ videos'[id] = videos[id]
                 /\ CardsOf(id)' = CardsOf(id)
                 /\ chatRequests'[id] = chatRequests[id] ]_vars
    /\ [](\A id \in Jobs : CardContents(id) = SavedByRun(id))
    /\ [](\A a \in Jobs, b \in Jobs :
            (run[a].pc = "done" /\ run[b].pc = "done" /\ SameInputs(a, b))
            => /\ videos[a].status = videos[b].status
               /\ videos[a].processingProgress = videos[b].processingProgress
               /\ videos[a].transcription = videos[b].transcription
               /\ run[a].error = run[b].error
               /\ CardContents(a) = CardContents(b))

\* C24 witness: two runs have completed, and the flashcards of one of them
\* were all saved after the flashcards of the other, so that their ids do
\* not start at 1.
C24_Witness ==
    \E a \in Jobs, b \in Jobs :
        /\ a # b
        /\ run[a].pc = "done" /\ run[b].pc = "done"
        /\ videos[a].status = "completed" /\ videos[b].status = "completed"
        /\ Len(CardsOf(b)) >= 2
        /\ \A k \in 1..Len(CardsOf(b)) :
              CardsOf(b)[k].id = Len(CardsOf(a)) + k

\* C24 as stated: the final state of a job, the ids of its flashcards
\* included, is what its run leaves when it executes alone.
C24_FinalStateAsAlone ==
    \A id \in Jobs :
        run[id].pc = "done"
        => CardsOf(id) =
             [k \in 1..run[id].i |->
                [id |-> k, videoId |-> id,
                 question |-> run[id].flashcards[k].question,
                 answer |-> run[id].flashcards[k].answer, order |-> k - 1]]

\* C25: when every ready step is eventually taken, every job that was
\* created is eventually completed or failed; a run that has ended has
\* left its job completed or failed; and no step removes a job or takes a
\* run that has not reached its end out of the pipeline.
C25_RunsTerminate ==
    /\ \A id \in 1..MaxVideosSolo :
          (id \in Jobs) ~> (id \in Jobs /\ videos[id].status \in {"completed", "failed"})
    /\ [](\A id \in Jobs :
             run[id].pc \in {"completed", "done"}
             => videos[id].status \in {"completed", "failed"})
    /\ [][ \A id \in Jobs :
              /\ id \in DOMAIN videos' /\ id \in DOMAIN run'
              /\ (videos[id].status \in {"uploading", "processing"}
                  /\ videos'[id].status \in {"uploading", "processing"})
                 => run'[id].pc \notin {"completed", "done"} ]_vars

\* C25 witness: a run that went through the download, the extraction, the
\* transcription call and the generation call has ended.
C25_Witness ==
    \E id \in Jobs :
        /\ run[id].kind = "url" /\ run[id].whisper = "ok"
        /\ run[id].chatOutcome # NoOutcome
        /\ run[id].pc = "done"
        /\ videos[id].status \in {"completed", "failed"}

\* The awaits of a run in program order.
PcOrder ==
    << "created", "p10", "p30", "yt-dlp", "ffmpeg", "whisper", "transcribed", "p60",
       "gotVideo", "chat", "generated", "saving", "completed", "done" >>

PcRank(pc) == CHOOSE k \in 1..Len(PcOrder) : PcOrder[k] = pc

\* C26: a run makes at most one generation request, and a transcription or
\* generation call that is in flight is the first of its run; a run only
\* moves forward in program order (the save loop, which advances its index,
\* is the one place it stays), so no call site is reached twice; the
\* outcome of a call, once recorded, is not replaced; and a failed job
\* stays failed.
C26_NoRetry ==
    /\ [](\A id \in Jobs :
            /\ Len(chatRequests[id]) <= 1
            /\ run[id].pc = "whisper" => run[id].whisper = "none"
            /\ run[id].pc = "chat"
               => run[id].chatOutcome = NoOutcome /\ Len(chatRequests[id]) = 1
            /\ PcRank(run[id].pc) < PcRank("chat") => chatRequests[id] = <<>>)
    /\ [][ \A id \in Jobs :
              /\ PcRank(run'[id].pc) >= PcRank(run[id].pc)
              /\ (run'[id].pc = run[id].pc /\ run'[id] # run[id])
                 => run[id].pc = "saving" /\ run'[id].i = run[id].i + 1
              /\ run[id].whisper # "none" => run'[id].whisper = run[id].whisper
              /\ run[id].chatOutcome # NoOutcome => run'[id].chatOutcome = run[id].chatOutcome
              /\ videos[id].status = "failed" => videos'[id].status = "failed" ]_vars

\* C26 witness: the transcription call returned, the one generation call
\* threw, and the run has ended with the job failed.
C26_Witness ==
    \E id \in Jobs :
        /\ run[id].whisper = "ok"
        /\ run[id].chatOutcome # NoOutcome /\ TryThrows(run[id].chatOutcome)
        /\ Len(chatRequests[id]) = 1
        /\ run[id].pc = "done"
        /\ videos[id].status = "failed"

\* The sessions the store holds for a job.
SessionsOf(videoId) == { i \in DOMAIN studySessions : studySessions[i].videoId = videoId }

\* C27: two calls of POST /api/videos/:id/study-session for the same job,
\* one after the other, are answered with the same session id; a call for a
\* job that was asked for before leaves the store as it is; and the store
\* holds one session for every job that was asked for, and never two for a
\* job.
C27_CreateStudySessionIdempotent ==
    /\ [](/\ \A c \in DOMAIN calls, d \in DOMAIN calls :
                calls[c].videoId = calls[d].videoId
                => calls[c].response.id = calls[d].response.id
          /\ \A c \in DOMAIN calls : Cardinality(SessionsOf(calls[c].videoId)) = 1
          /\ \A id \in Jobs : Cardinality(SessionsOf(id)) <= 1)
    /\ [][ (/\ Len(calls') = Len(calls) + 1
            /\ \E c \in DOMAIN calls : calls[c].videoId = calls'[Len(calls')].videoId)
           => /\ studySessions' = studySessions
              /\ currentStudySessionId' = currentStudySessionId
              /\ flashcards' = flashcards /\ videos' = videos ]_vars

\* C27 witness: the route was called twice for one job, the session was
\* updated in between, and both calls were answered with the session of
\* the same id.
C27_Witness ==
    /\ Len(calls) = 2
    /\ calls[1].videoId = calls[2].videoId
    /\ calls[1].response.id = calls[2].response.id
    /\ calls[1].response # calls[2].response

\* C28: for every study session of a job with M >= 1 flashcards, the stored
\* current card index is at least 0 and less than M.
C28_IndexInRange ==
    \A i \in DOMAIN studySessions :
        LET M == Len(CardsOf(studySessions[i].videoId)) IN
        M >= 1 => /\ 0 <= studySessions[i].currentCardIndex
                  /\ studySessions[i].currentCardIndex < M

\* The number of flashcards of the job the page is studying.
StudiedCards == Len(CardsOf(client.videoId))

\* C29: the page's current card index never exceeds M - 1, however many
\* times next-card was invoked, and neither does the index stored in the
\* session; a next-card below M - 1 moves to the next card and sends that
\* index; a next-card at M - 1 leaves the index unchanged, sends the
\* completion of the session (completedAt) and calls onComplete, which
\* takes the page to the completion section.
C29_AdvanceStopsAtLastCard ==
    /\ [](client.rendered /\ client.cards > 0
          => /\ client.cards = StudiedCards
             /\ client.currentCardIndex <= StudiedCards - 1
             /\ \A i \in SessionsOf(client.videoId) :
                    studySessions[i].currentCardIndex <= StudiedCards - 1)
    /\ [][ client'.advances = client.advances + 1
           => IF client.currentCardIndex < StudiedCards - 1
              THEN /\ client'.currentCardIndex = client.currentCardIndex + 1
                   /\ client'.appState = client.appState
                   /\ patches' = patches \cup
                        { [id |-> client.session.id,
                           updates |-> [currentCardIndex |-> client.currentCardIndex + 1]] }
              ELSE /\ client.currentCardIndex = StudiedCards - 1
                   /\ client'.currentCardIndex = client.currentCardIndex
                   /\ client'.appState = "completion"
                   /\ patches' = patches \cup
                        { [id |-> client.session.id, updates |-> [completedAt |-> IsoNow]] }
         ]_vars
    /\ [][ \A i \in DOMAIN studySessions :
              studySessions'[i].completedAt # studySessions[i].completedAt
              => studySessions'[i].currentCardIndex = studySessions[i].currentCardIndex ]_vars

\* C29 witness: next-card was invoked more often than the job has
\* flashcards, the page stands at the last card, and the session holds the
\* index of the last card and its completion.
C29_Witness ==
    /\ client.advances > StudiedCards
    /\ StudiedCards >= 2
    /\ client.currentCardIndex = StudiedCards - 1
    /\ client.appState = "completion"
    /\ \E i \in SessionsOf(client.videoId) :
          /\ studySessions[i].currentCardIndex = StudiedCards - 1
          /\ studySessions[i].completedAt = IsoNow

\* Submissions that must not create a job.
BadFile(file) ==
    \/ file = NoFile
    \/ file.mimetype \notin { "video/mp4", "video/quicktime", "video/x-msvideo" }
    \/ file.size > 500 * 1024 * 1024

BadUrls == { Null, <<>>, UrlNoScheme, UrlNoHost, UrlWords, UrlBlankHost }

IsRejection(answer) ==
    answer \in { "Invalid file type. Only MP4, MOV, and AVI files are allowed.",
                 "File too large", "No video file provided",
                 "No video URL provided", "Invalid URL format" }

\* C30: a file submission without a file, with a type outside video/mp4,
\* video/quicktime and video/x-msvideo, or over 500MB, and a URL submission
\* whose URL is missing, empty or no URL, is answered with an error; and the
\* step that answers a submission with an error creates no job, dispatches
\* no run and leaves the store and everything else as it was.
C30_RejectedBeforeJobCreation ==
    /\ [](/\ (lastSubmission.route = "upload" /\ BadFile(lastSubmission.file))
             => IsRejection(lastSubmission.answer)
          /\ (lastSubmission.route = "upload-url" /\ lastSubmission.videoUrl \in BadUrls)
             => IsRejection(lastSubmission.answer))
    /\ [][ (lastSubmission' # lastSubmission /\ IsRejection(lastSubmission'.answer))
           => /\ videos' = videos /\ currentVideoId' = currentVideoId
              /\ flashcards' = flashcards /\ currentFlashcardId' = currentFlashcardId
              /\ studySessions' = studySessions
              /\ run' = run /\ staged' = staged /\ chatRequests' = chatRequests ]_vars
    /\ [][ DOMAIN videos' # DOMAIN videos
           => /\ lastSubmission'.answer = "video"
              /\ ~BadFile(lastSubmission'.file) \/ lastSubmission'.videoUrl \notin BadUrls ]_vars

\* C30 witness: a job exists and its run is under way, and a file of a type
\* that is not accepted has just been answered with the error.
C30_Witness ==
    /\ lastSubmission.route = "upload"
    /\ lastSubmission.file.mimetype = "image/png"
    /\ IsRejection(lastSubmission.answer)
    /\ \E id \in Jobs : videos[id].status = "processing"

\* Ids to ask the store for, stored or not.
ProbeIds == 0..(MaxVideos + 1)

\* C31: in every reachable state of the store, a get of a job or session
\* id that is not stored gives no record (and GET /api/videos/:id answers
\* 404), and updateVideoStatus, updateVideoTranscription and
\* updateStudySession with an id that is not stored give the store back as
\* it is; a PATCH for a session id that is not stored is handled without
\* changing any video, flashcard or session.
C31_NotFoundIsNoError ==
    /\ [](/\ \A id \in ProbeIds \ DOMAIN videos :
                /\ getVideo(videos, id) = NoVideo
                /\ GetVideoAnswer(videos, id).status = 404
                /\ \A status \in {"processing", "failed"}, progress \in {0, 60} :
                      updateVideoStatus(videos, id, status, progress) = videos
                /\ updateVideoTranscription(videos, id, Plain(Good500)) = videos
          /\ \A id \in ProbeIds \ DOMAIN studySessions :
                /\ getStudySession(studySessions, id) = NoSession
                /\ \A updates \in { [currentCardIndex |-> 1], [completedAt |-> IsoNow] } :
                      updateStudySession(studySessions, id, updates) = studySessions)
    /\ [][ \A p \in patches \ patches' :
              p.id \notin DOMAIN studySessions
              => /\ studySessions' = studySessions
                 /\ videos' = videos
                 /\ flashcards' = flashcards ]_vars

\* C31 witness: the page sent a PATCH before it had its session, to a
\* session id that is not stored; the request has been handled, and the
\* session of the job is as createStudySession made it.
C31_Witness ==
    /\ client.advances >= 1
    /\ client.session = NoSession
    /\ patches = {}
    /\ \E i \in DOMAIN studySessions :
          /\ studySessions[i].currentCardIndex = 0
          /\ studySessions[i].completedAt = Null

-----------------------------------------------------------------------------
(* Provider failures of the chat completion *)

\* Messages of the errors openai.chat.completions.create rejects with: the
\* four of ChatOutcomes, and messages that mention two of the tested
\* phrases or spell one with a capital.
ProviderMessages ==
    { MsgAuth, MsgQuota, MsgRate, MsgNet,
      \* You exceeded your current quota (request req_4012)
      << "Y","o","u"," ","e","x","c","e","e","d","e","d"," ","y","o","u",
         "r"," ","c","u","r","r","e","n","t"," ","q","u","o","t","a"," ",
         "(","r","e","q","u","e","s","t"," ","r","e","q","_","4","0","1",
         "2",")" >>,
      \* rate limit reached, check your billing details
      << "r","a","t","e"," ","l","i","m","i","t"," ","r","e","a","c","h",
         "e","d",","," ","c","h","e","c","k"," ","y","o","u","r"," ","b",
         "i","l","l","i","n","g"," ","d","e","t","a","i","l","s" >>,
      \* Rate limit reached for gpt-4o
      << "R","a","t","e"," ","l","i","m","i","t"," ","r","e","a","c","h",
         "e","d"," ","f","o","r"," ","g","p","t","-","4","o" >>,
      \* Incorrect API key provided, see billing page
      << "I","n","c","o","r","r","e","c","t"," ","A","P","I"," ","k","e",
         "y"," ","p","r","o","v","i","d","e","d",","," ","s","e","e"," ",
         "b","i","l","l","i","n","g"," ","p","a","g","e" >> }

\* Transcripts of the run whose chat completion fails: one that passes the
\* validation and one of each rejection.
ProviderTranscripts == { Plain(t) : t \in { Good500, Short40, Plain120, Quota120 } }

NextProvider ==
    \/ PostUpload(MaxVideosSolo)
    \/ \E id \in Ids : Dispatch(id)
    \/ \E id \in Ids : Progress30(id)
    \/ \E id \in Ids : Acquire(id)
    \/ \E id \in Ids : FfmpegExit(id, TRUE)
    \/ \E id \in Ids : \E text \in ProviderTranscripts : WhisperReturns(id, text)
    \/ \E id \in Ids : Progress60(id)
    \/ \E id \in Ids : GetVideo(id)
    \/ \E id \in Ids : Generate(id)
    \/ \E id \in Ids : \E m \in ProviderMessages : ChatSettles(id, ChatThrows(m))
    \/ \E id \in Ids : ChatSettles(id, ChatContent(ThreePairsOneEmpty))
    \/ \E id \in Ids : Progress80(id)
    \/ \E id \in Ids : SaveFlashcard(id)
    \/ \E id \in Ids : Complete(id)
    \/ \E id \in Ids : Cleanup(id)
    \/ \E path \in unlinked, err \in BOOLEAN : UnlinkCallback(path, err)

\* One uploaded file whose chat completion rejects with any of
\* ProviderMessages.
SpecProvider == Init /\ [][NextProvider]_vars

MentionsKey(m) == includes(m, << "I","n","c","o","r","r","e","c","t"," ","A","P","I"," ","k","e","y" >>) \/ includes(m, << "4","0","1" >>)

MentionsQuota(m) == includes(m, << "q","u","o","t","a" >>) \/ includes(m, << "b","i","l","l","i","n","g" >>)

MentionsRate(m) == includes(m, << "r","a","t","e"," ","l","i","m","i","t" >>)

InvalidKeyError ==
    Error("Invalid OpenAI API key. Please check your OPEN_API_VIDTUT secret in Replit.", <<>>)

QuotaError == Error("OpenAI API quota exceeded. Please check your billing.", <<>>)

RateLimitError == Error("OpenAI API rate limit exceeded. Please try again later.", <<>>)

GenericFailure(m) == Error("Failed to generate flashcards: ", m)

\* The errors ValidateTranscription rejects a transcript with.
GateRejections ==
    { ValidateTranscription(t) : t \in { <<>>, Quota120, Plain120 } } \ { NoError }

\* The runs whose chat completion rejected with a provider error.
ProviderFailed == { id \in Ids : run[id].chatOutcome.type = "throw" }

\* C32 as stated: a provider error mentioning 'Incorrect API key' or '401'
\* is re-signalled as the invalid-key error, one mentioning 'quota' or
\* 'billing' as the quota error, one mentioning 'rate limit' as the
\* rate-limit error, any other as the generic failure.
C32_EachMentionYieldsItsError ==
    \A id \in ProviderFailed :
        LET m == run[id].chatOutcome.message
            e == run[id].generated.error
        IN  /\ MentionsKey(m) => e = InvalidKeyError
            /\ MentionsQuota(m) => e = QuotaError
            /\ MentionsRate(m) => e = RateLimitError
            /\ ~(MentionsKey(m) \/ MentionsQuota(m) \/ MentionsRate(m)) => e = GenericFailure(m)

\* C32 (amended): the catch block tests the message of the provider error
\* in a fixed order, case-sensitively: 'Incorrect API key' or '401' gives
\* the invalid-key error; otherwise 'quota' or 'billing' the quota error;
\* otherwise 'rate limit' the rate-limit error; otherwise the generic
\* failure that carries the message. Each of these errors differs from
\* every error the validation of the transcript rejects with.
C32_FirstMentionYieldsItsError ==
    \A id \in ProviderFailed :
        LET m == run[id].chatOutcome.message
            e == run[id].generated.error
        IN  /\ e = IF MentionsKey(m) THEN InvalidKeyError
                   ELSE IF MentionsQuota(m) THEN QuotaError
                   ELSE IF MentionsRate(m) THEN RateLimitError
                   ELSE GenericFailure(m)
            /\ e \notin GateRejections
            /\ e # NoError

\* C32 witness: a provider error that mentions both 'quota' and '401' has
\* been re-signalled, as the invalid-key error.
C32_Witness ==
    \E id \in ProviderFailed :
        /\ MentionsKey(run[id].chatOutcome.message)
        /\ MentionsQuota(run[id].chatOutcome.message)
        /\ ~includes(run[id].chatOutcome.message, << "I","n","c","o","r","r","e","c","t"," ","A","P","I"," ","k","e","y" >>)
        /\ run[id].generated.error = InvalidKeyError
        /\ Cardinality(GateRejections) = 3

\* The progress values a run writes, and the initial one.
ProgressValues == { 0, 10, 30, 60, 80, 100 }

\* C33: in every reachable state, a completed job has progress 100, a
\* transcript that is not null and at least one flashcard; a failed job has
\* progress 0; a job still uploading has progress 0, a null transcript and
\* no flashcard; and the progress of every job is one of 0, 10, 30, 60, 80
\* and 100.
C33_StatusProgressInvariants ==
    \A id \in DOMAIN videos :
        /\ videos[id].status = "completed" =>
              /\ videos[id].processingProgress = 100
              /\ videos[id].transcription # Plain(Null)
              /\ Len(getFlashcardsByVideoId(flashcards, id)) >= 1
        /\ videos[id].status = "failed" => videos[id].processingProgress = 0
        /\ videos[id].status = "uploading" =>
              /\ videos[id].processingProgress = 0
              /\ videos[id].transcription = Plain(Null)
              /\ getFlashcardsByVideoId(flashcards, id) = <<>>
        /\ videos[id].processingProgress \in ProgressValues

\* C33 witness: two jobs, one completed with its flashcards and one failed
\* after its transcript was stored.
C33_Witness ==
    \E a, b \in DOMAIN videos :
        /\ videos[a].status = "completed" /\ Len(CardsOf(a)) >= 1
        /\ videos[b].status = "failed" /\ videos[b].transcription # Plain(Null)

\* The runs whose submission handler has sent its response.
Answered == { id \in Ids : run[id].pc # "created" }

\* C34 as stated: the record in the response of a submission reports the
\* status uploading and the progress 0.
C34_ResponseReportsUploading ==
    \A id \in Answered :
        /\ run[id].response.status = "uploading"
        /\ run[id].response.processingProgress = 0

\* C34 (amended): the record in the response of a submission, of a file or
\* of a URL, reports the status processing and the progress 10, with a null
\* transcript: it is the stored record as it stands after the first write
\* of the run, and no later write of the run changes the response.
C34_ResponseReportsFirstWrite ==
    /\ [](\A id \in Answered :
            /\ run[id].response.id = id
            /\ run[id].response.status = "processing"
            /\ run[id].response.processingProgress = 10
            /\ run[id].response.transcription = Plain(Null))
    /\ [][ \A id \in Ids :
              /\ (run[id].pc = "created" /\ run'[id].pc # "created")
                 => run'[id].response = videos'[id]
              /\ run[id].pc # "created" => run'[id].response = run[id].response
         ]_vars

\* C34 witness: the job of a submitted URL has completed; the response of
\* its submission showed it processing at 10.
C34_Witness ==
    \E id \in Answered :
        /\ run[id].kind = "url"
        /\ run[id].response.status = "processing"
        /\ run[id].response.processingProgress = 10
        /\ videos[id].status = "completed"

\* C35: at most one study session per job exists in every reachable state,
\* under every interleaving of create-session requests for the same job
\* whose lookup and insert are separate steps.
C35_OneSessionPerJob ==
    \A id \in Jobs : Cardinality(SessionsOf(id)) <= 1

\* C36: a PATCH changes only the session it addresses and never that
\* session's id or videoId; so every session is stored under its own id and
\* no two sessions belong to the same job.
C36_SessionIdentityKept ==
    /\ [](/\ \A i \in DOMAIN studySessions : studySessions[i].id = i
          /\ \A id \in Jobs : Cardinality(SessionsOf(id)) <= 1)
    /\ [][ \A p \in patches \ patches' :
              \A i \in DOMAIN studySessions :
                  /\ i \in DOMAIN studySessions'
                  /\ i # p.id => studySessions'[i] = studySessions[i]
                  /\ studySessions'[i].id = studySessions[i].id
                  /\ studySessions'[i].videoId = studySessions[i].videoId ]_vars

\* The indexes of a list of card indexes.
IndexesOf(list) == { list[k] : k \in 1..Len(list) }

MarkFields == { "completedCards", "reviewCards" }

\* C37: marking is cumulative. When a mark of the learner is stored, the
\* stored list holds the card that was marked and every card it held before,
\* whatever the session refetch had delivered to the page when the mark was
\* made; this holds for completedCards and for reviewCards, and neither
\* list ever holds an index twice.
C37_MarkingCumulative ==
    /\ [](\A i \in DOMAIN studySessions, field \in MarkFields :
            Cardinality(IndexesOf(studySessions[i][field])) = Len(studySessions[i][field]))
    /\ [][ \A p \in patches \ patches' :
              \A field \in MarkFields \cap DOMAIN p.updates :
                  p.id \in DOMAIN studySessions =>
                      (IndexesOf(studySessions[p.id][field]) \cup IndexesOf(p.updates[field]))
                          \subseteq IndexesOf(studySessions'[p.id][field]) ]_vars

\* C38: getFlashcardsByVideoId(v) returns exactly the stored flashcards whose
\* videoId is v, each once, in ascending ordinal order; flashcard ids and
\* job ids are unique and below their counters, which never decrease; and
\* no step removes a stored flashcard or job or changes a flashcard or the
\* identity of a job, however the createVideo and createFlashcard calls of
\* concurrent runs interleave.
C38_FlashcardsByVideoExact ==
    /\ [](/\ \A v \in ProbeIds :
                LET result == getFlashcardsByVideoId(flashcards, v) IN
                /\ { result[k] : k \in 1..Len(result) }
                      = { flashcards[k] : k \in { j \in 1..Len(flashcards) : flashcards[j].videoId = v } }
                /\ Len(result) = Cardinality({ j \in 1..Len(flashcards) : flashcards[j].videoId = v })
                /\ \A k \in 1..(Len(result) - 1) : result[k].order < result[k + 1].order
          /\ \A k \in 1..Len(flashcards), l \in 1..Len(flashcards) :
                k # l => flashcards[k].id # flashcards[l].id
          /\ \A k \in 1..Len(flashcards) : flashcards[k].id \in 1..(currentFlashcardId - 1)
          /\ \A id \in DOMAIN videos : videos[id].id = id /\ id \in 1..(currentVideoId - 1))
    /\ [][ /\ Len(flashcards') >= Len(flashcards)
           /\ SubSeq(flashcards', 1, Len(flashcards)) = flashcards
           /\ currentFlashcardId' >= currentFlashcardId
           /\ currentVideoId' >= currentVideoId
           /\ \A id \in DOMAIN videos :
                /\ id \in DOMAIN videos'
                /\ videos'[id].id = videos[id].id
                /\ videos'[id].videoUrl = videos[id].videoUrl
         ]_vars

\* C38 witness: two jobs have their flashcards in the store, the cards of
\* the job created second before those of the first, and the cards of each
\* are read back without the other's.
C38_Witness ==
    /\ Len(flashcards) >= 4
    /\ flashcards[1].videoId = 2
    /\ flashcards[Len(flashcards)].videoId = 1
    /\ Len(getFlashcardsByVideoId(flashcards, 1)) >= 2
    /\ Len(getFlashcardsByVideoId(flashcards, 1)) + Len(getFlashcardsByVideoId(flashcards, 2))
          = Len(flashcards)
    /\ videos[1].status = "completed" /\ videos[2].status = "completed"

====
